---- MODULE Spec2Model ----
(***************************************************************************)
(* Model of the QA MCP server's workflow orchestration and client layer.   *)
(*                                                                         *)
(* Every tool invocation is one asyncio task.  A task runs without         *)
(* interruption from one await of an HTTP request to the next, so an       *)
(* action of this model is one such run: Start runs a tool from its entry  *)
(* to its first outbound request (or to its end, when it fails before      *)
(* sending one), Respond delivers the response of the request in flight    *)
(* and runs the task to its next request or to its end.                    *)
(***************************************************************************)
EXTENDS Integers, Sequences, FiniteSets, TLC

\* Number of tool invocations (asyncio tasks) that may run concurrently.
NumInv == 2

Inv == 1..NumInv

\* Inputs the invocations are drawn from.
Users == {"alice", "bob"}
ResultInputs == {"pass", "PASS", "maybe"}
TransitionInputs == {"resolved", "Resolved", "bogus"}

\* str.lower() on the strings of the model.
Lower(s) ==
  CASE s = "PASS" -> "pass"
    [] s = "Resolved" -> "resolved"
    [] OTHER -> s

VARIABLES
  config,        \* the lookup tables bound at import of clients/jira.py
  issue,         \* the ticket as the tracker holds it
  pc,            \* per invocation: "idle", "awaiting" or "done"
  tool,          \* per invocation: the entry point that was called
  arg,           \* per invocation: username / result value / transition name
  operations,    \* per invocation: results["operations"] of the workflow
  requests,      \* per invocation: the HTTP requests sent so far, with outcome
  clientResult,  \* per invocation: how the last client method call ended
  result,        \* per invocation: how the entry point ended
  pb,            \* one call of PromptBuilder.build_analysis_prompt: inputs and output
  ai_client,     \* server global _ai_client
  handlers,      \* server global _handlers
  jira,          \* server global _jira
  task,          \* one AI-analysis call: a tool of the server or a handler called directly
  ask,           \* one call of AIClient.ask_openai
  services,      \* per external service: the client object and connection handle cached
  uses,          \* per invocation: the service it is using and the handle it got
  search,        \* one call of GitHubClient.search_prs
  e2e            \* one call of the qa_trigger_e2e_tests tool

workflowVars == <<config, issue, pc, tool, arg, operations, requests, clientResult, result>>
analysisVars == <<pb, ai_client, handlers, jira, task>>
clientVars == <<ask, services, uses, search, e2e>>
vars == <<config, issue, pc, tool, arg, operations, requests, clientResult, result,
          pb, ai_client, handlers, jira, task, ask, services, uses, search, e2e>>

(***************************************************************************)
(* Configuration                                                           *)
(***************************************************************************)

\* config.py as copied from config_example.py
ExampleConfig ==
  [ TEST_RESULT_VALUES |->
      [k \in {"pass", "fail", "in_progress", "blocked", "not_tested"} |->
         CASE k = "blocked" -> "value:Blocked"
           [] k = "not_tested" -> "value:Not Tested"
           [] OTHER -> "id:XXXXX"],
    JIRA_TRANSITIONS |->
      [k \in {"backlog", "open", "in_progress", "resolved", "closed", "reopened"} |-> "XXX"] ]

\* the except ImportError branch: no config.py on the path
FallbackConfig ==
  [ TEST_RESULT_VALUES |-> [k \in {} |-> ""],
    JIRA_TRANSITIONS |-> [k \in {} |-> ""] ]

\* dict.get(key): the value, or None (modelled as the empty string)
DictGet(d, key) == IF key \in DOMAIN d THEN d[key] ELSE ""

(***************************************************************************)
(* Client methods                                                          *)
(***************************************************************************)

JiraCalls == {"assign_issue", "set_validator", "set_test_result", "add_comment", "transition_issue"}

\* set_test_result: raises ValueError unless result.lower() is in TEST_RESULT_VALUES
ValidTestResult_CaseSensitive(value) == value \in DOMAIN config.TEST_RESULT_VALUES
ValidTestResult(value) == Lower(value) \in DOMAIN config.TEST_RESULT_VALUES

\* transition_issue: raises ValueError unless JIRA_TRANSITIONS.get(name.lower()) is truthy
ValidTransition_CaseSensitive(name) == DictGet(config.JIRA_TRANSITIONS, name) # ""
ValidTransition(name) == DictGet(config.JIRA_TRANSITIONS, Lower(name)) # ""

\* The check a client method makes before it sends its request.
Validate(call, value) ==
  CASE call = "set_test_result" -> ValidTestResult(value)
    [] call = "transition_issue" -> ValidTransition(value)
    [] OTHER -> TRUE

\* The keys the ValueError message lists.
ValidKeys(call) ==
  CASE call = "set_test_result" -> DOMAIN config.TEST_RESULT_VALUES
    [] call = "transition_issue" -> DOMAIN config.JIRA_TRANSITIONS
    [] OTHER -> {}

\* The request a client method sends; key is the table key the body was looked up under.
BuildRequest(call, value) ==
  CASE call = "assign_issue" ->
         [call |-> call, verb |-> "PUT", path |-> "/issue/KEY/assignee", key |-> value, body |-> value, outcome |-> "pending"]
    [] call = "set_validator" ->
         [call |-> call, verb |-> "PUT", path |-> "/issue/KEY", key |-> value, body |-> value, outcome |-> "pending"]
    [] call = "set_test_result" ->
         [call |-> call, verb |-> "PUT", path |-> "/issue/KEY", key |-> Lower(value),
          body |-> DictGet(config.TEST_RESULT_VALUES, Lower(value)), outcome |-> "pending"]
    [] call = "add_comment" ->
         [call |-> call, verb |-> "POST", path |-> "/issue/KEY/comment", key |-> value, body |-> value, outcome |-> "pending"]
    [] call = "transition_issue" ->
         [call |-> call, verb |-> "POST", path |-> "/issue/KEY/transitions", key |-> Lower(value),
          body |-> DictGet(config.JIRA_TRANSITIONS, Lower(value)), outcome |-> "pending"]
    [] call = "get_pr" ->
         [call |-> call, verb |-> "GET", path |-> "/repos/O/R/pulls/N", key |-> value, body |-> "", outcome |-> "pending"]
    [] call = "trigger_build" ->
         [call |-> call, verb |-> "POST", path |-> "/JOB/build", key |-> value, body |-> "", outcome |-> "pending"]
    [] call = "post_message" ->
         [call |-> call, verb |-> "POST", path |-> "/messages", key |-> value, body |-> value, outcome |-> "pending"]

\* Outcomes of an HTTP request and the exception httpx raises for each failure.
Outcomes == {"ok", "status_error", "network_error"}
ExceptionOf(outcome) == IF outcome = "status_error" THEN "HTTPStatusError" ELSE "ConnectError"

\* httpx.HTTPError is the base class of HTTPStatusError and of the transport errors.
IsHTTPError(exc) == exc \in {"HTTPStatusError", "ConnectError"}

\* The except clauses of the client methods.
ClientCatches_All(call, exc) == IsHTTPError(exc)
ClientCatches(call, exc) ==
  CASE call \in JiraCalls -> FALSE
    [] call \in {"get_pr", "post_message"} -> IsHTTPError(exc)
    [] call = "trigger_build" -> exc = "HTTPStatusError"
    [] OTHER -> FALSE

(***************************************************************************)
(* Workflows and tools                                                     *)
(***************************************************************************)

\* JiraClient.claim_for_qa: assign + set validator + set in progress
claim_for_qa_Swapped(username) ==
  << [call |-> "set_validator", value |-> username, entry |-> "validator_set"],
     [call |-> "assign_issue", value |-> username, entry |-> "assigned"],
     [call |-> "set_test_result", value |-> "in_progress", entry |-> "test_result_in_progress"] >>
claim_for_qa(username) ==
  << [call |-> "assign_issue", value |-> username, entry |-> "assigned"],
     [call |-> "set_validator", value |-> username, entry |-> "validator_set"],
     [call |-> "set_test_result", value |-> "in_progress", entry |-> "test_result_in_progress"] >>

\* A resolve_pass that sends its comment a second time.
resolve_pass_Twice ==
  << [call |-> "add_comment", value |-> "comment", entry |-> "comment_added"],
     [call |-> "add_comment", value |-> "comment", entry |-> "comment_added"],
     [call |-> "transition_issue", value |-> "resolved", entry |-> "transitioned_to_resolved"],
     [call |-> "set_test_result", value |-> "pass", entry |-> "test_result_pass"] >>

\* JiraClient.resolve_pass: add comment + transition + set pass
resolve_pass ==
  << [call |-> "add_comment", value |-> "comment", entry |-> "comment_added"],
     [call |-> "transition_issue", value |-> "resolved", entry |-> "transitioned_to_resolved"],
     [call |-> "set_test_result", value |-> "pass", entry |-> "test_result_pass"] >>

\* JiraClient.fail_and_reopen: add comment + transition + set fail
fail_and_reopen ==
  << [call |-> "add_comment", value |-> "comment", entry |-> "comment_added"],
     [call |-> "transition_issue", value |-> "reopened", entry |-> "transitioned_to_reopened"],
     [call |-> "set_test_result", value |-> "fail", entry |-> "test_result_fail"] >>

WorkflowTools == {"qa_claim_ticket", "qa_resolve_pass", "qa_fail_ticket"}
SingleTools == {"qa_add_comment", "qa_transition_ticket", "set_test_result",
                "qa_get_pr_info", "trigger_build", "webex_post_message"}
Tools == WorkflowTools \cup SingleTools

\* The arguments an entry point is called with.
ArgsOf(t) ==
  CASE t = "qa_claim_ticket" -> Users
    [] t = "qa_transition_ticket" -> TransitionInputs
    [] t = "set_test_result" -> ResultInputs
    [] OTHER -> {"-"}

\* The client method calls an entry point makes, in order.
Program(t, a) ==
  CASE t = "qa_claim_ticket" -> claim_for_qa(a)
    [] t = "qa_resolve_pass" -> resolve_pass
    [] t = "qa_fail_ticket" -> fail_and_reopen
    [] t = "qa_add_comment" -> << [call |-> "add_comment", value |-> "comment", entry |-> ""] >>
    [] t = "qa_transition_ticket" -> << [call |-> "transition_issue", value |-> a, entry |-> ""] >>
    [] t = "set_test_result" -> << [call |-> "set_test_result", value |-> a, entry |-> ""] >>
    [] t = "qa_get_pr_info" -> << [call |-> "get_pr", value |-> "pr", entry |-> ""] >>
    [] t = "trigger_build" -> << [call |-> "trigger_build", value |-> "job", entry |-> ""] >>
    [] t = "webex_post_message" -> << [call |-> "post_message", value |-> "text", entry |-> ""] >>

\* The except clauses of the tool functions: only qa_transition_ticket has any.
ToolCatches(t, exc) == t = "qa_transition_ticket"

NoResult == [kind |-> "none", status |-> "", exc |-> "", error |-> "", lists |-> {}]
Success == [kind |-> "return", status |-> "success", exc |-> "", error |-> "", lists |-> {}]
Raised(exc, msg, keys) == [kind |-> "raise", status |-> "", exc |-> exc, error |-> msg, lists |-> keys]
ErrorEnvelope(msg, keys) == [kind |-> "return", status |-> "error", exc |-> "", error |-> msg, lists |-> keys]

\* How a client method ends when exc is raised inside it.
ClientOutcome(call, exc, msg, keys) ==
  IF ClientCatches(call, exc) THEN ErrorEnvelope(msg, {}) ELSE Raised(exc, msg, keys)

\* How a tool function ends when its client call ended as cr.
ToolOutcome(t, cr) ==
  IF cr.kind = "raise" /\ ToolCatches(t, cr.exc)
    THEN ErrorEnvelope(IF cr.exc = "ValueError" THEN cr.error ELSE "Failed to transition", cr.lists)
    ELSE cr

\* results["operations"].append(name), which follows each awaited call of a workflow
AppendOperation_Skip(log, name) == log
AppendOperation(log, name) == Append(log, name)

\* The number of steps after which a workflow sets results["status"] = "success".
StepsRequired_Early(prog) == Len(prog) - 1
StepsRequired(prog) == Len(prog)

(***************************************************************************)
(* The tracker                                                             *)
(***************************************************************************)

Unset == [val |-> "none", by |-> 0]

\* The effect of a request that the tracker accepted.
Apply(iss, req, i) ==
  CASE req.call = "assign_issue" -> [iss EXCEPT !.assignee = [val |-> req.key, by |-> i]]
    [] req.call = "set_validator" -> [iss EXCEPT !.validator = [val |-> req.key, by |-> i]]
    [] req.call = "set_test_result" -> [iss EXCEPT !.test_result = [val |-> req.key, by |-> i]]
    [] req.call = "transition_issue" -> [iss EXCEPT !.status = [val |-> req.key, by |-> i]]
    [] req.call = "add_comment" -> [iss EXCEPT !.comments = @ \cup {i}]
    [] OTHER -> iss

\* What a workflow does to the tracker when one of its steps fails: nothing.
OnStepFailure_RollBack(iss, i) ==
  [ assignee |-> IF iss.assignee.by = i THEN Unset ELSE iss.assignee,
    validator |-> IF iss.validator.by = i THEN Unset ELSE iss.validator,
    test_result |-> IF iss.test_result.by = i THEN Unset ELSE iss.test_result,
    status |-> IF iss.status.by = i THEN Unset ELSE iss.status,
    comments |-> iss.comments \ {i} ]
OnStepFailure(iss, i) == iss

(***************************************************************************)
(* One run of a task, from step k of its program to its next await          *)
(***************************************************************************)

Run(t, a, k, reqs, cr) ==
  LET prog == Program(t, a) IN
  IF k > StepsRequired(prog)
    THEN [pc |-> "done", requests |-> reqs, clientResult |-> cr, result |-> Success]
    ELSE LET step == prog[k] IN
         IF Validate(step.call, step.value)
           THEN [pc |-> "awaiting", requests |-> Append(reqs, BuildRequest(step.call, step.value)),
                 clientResult |-> NoResult, result |-> NoResult]
           ELSE LET msg == IF step.call = "set_test_result" THEN "Invalid test result" ELSE "Unknown transition"
                    ve == ClientOutcome(step.call, "ValueError", msg, ValidKeys(step.call))
                IN [pc |-> "done", requests |-> reqs, clientResult |-> ve, result |-> ToolOutcome(t, ve)]

(***************************************************************************)
(* Actions                                                                 *)
(***************************************************************************)

InitWorkflow ==
  /\ config \in {ExampleConfig, FallbackConfig}
  /\ issue = [assignee |-> Unset, validator |-> Unset, test_result |-> Unset,
              status |-> Unset, comments |-> {}]
  /\ pc = [i \in Inv |-> "idle"]
  /\ tool = [i \in Inv |-> "none"]
  /\ arg = [i \in Inv |-> "-"]
  /\ operations = [i \in Inv |-> <<>>]
  /\ requests = [i \in Inv |-> <<>>]
  /\ clientResult = [i \in Inv |-> NoResult]
  /\ result = [i \in Inv |-> NoResult]

\* No prompt built, no AI client, handlers or tracker client created, no analysis called.
InitAnalysis ==
  /\ pb = [pos |-> "idle"]
  /\ ai_client = "None"
  /\ handlers = "None"
  /\ jira = "None"
  /\ task = [pos |-> "idle"]

\* The external services that have a getter in the server.
Services == {"jira", "aws", "jenkins", "github", "webex"}

\* A service whose getter has not run: _x is None.  obj and handle name the
\* cached client object and its cached httpx / boto3 handle (0 is None); objs
\* and handles count the ones created so far.
NoService == [obj |-> 0, handle |-> 0, objs |-> 0, handles |-> 0,
              closing |-> FALSE, closes |-> 0, configured |-> TRUE]

\* An invocation that is not using a service client.
NoUse == [pos |-> "idle", service |-> "none", obj |-> 0, handle |-> 0]

\* No model call made, no client object or connection handle created, no
\* search and no test run asked for.
InitClients ==
  /\ ask = [pos |-> "idle"]
  /\ services = [s \in Services |-> NoService]
  /\ uses = [i \in Inv |-> NoUse]
  /\ search = [pos |-> "idle"]
  /\ e2e = [pos |-> "idle"]

Init == InitWorkflow /\ InitAnalysis /\ InitClients

\* A tool is invoked and runs to its first await (or to its end).
Start(i, t, a) ==
  /\ pc[i] = "idle"
  /\ LET r == Run(t, a, 1, <<>>, NoResult) IN
       /\ pc' = [pc EXCEPT ![i] = r.pc]
       /\ requests' = [requests EXCEPT ![i] = r.requests]
       /\ clientResult' = [clientResult EXCEPT ![i] = r.clientResult]
       /\ result' = [result EXCEPT ![i] = r.result]
  /\ tool' = [tool EXCEPT ![i] = t]
  /\ arg' = [arg EXCEPT ![i] = a]
  /\ UNCHANGED <<config, issue, operations>>
  /\ UNCHANGED analysisVars
  /\ UNCHANGED clientVars

\* The request in flight completes with outcome o and the task runs on.
Respond(i, o) ==
  /\ pc[i] = "awaiting"
  /\ LET k == Len(requests[i])
         req == requests[i][k]
         reqs == [requests[i] EXCEPT ![k].outcome = o]
         step == Program(tool[i], arg[i])[k]
         cr == IF o = "ok" THEN Success
               ELSE ClientOutcome(req.call, ExceptionOf(o), ExceptionOf(o), {})
     IN
       /\ issue' = IF o = "ok" THEN Apply(issue, req, i) ELSE OnStepFailure(issue, i)
       /\ IF cr.kind = "raise"
            THEN /\ pc' = [pc EXCEPT ![i] = "done"]
                 /\ requests' = [requests EXCEPT ![i] = reqs]
                 /\ clientResult' = [clientResult EXCEPT ![i] = cr]
                 /\ result' = [result EXCEPT ![i] = ToolOutcome(tool[i], cr)]
                 /\ UNCHANGED operations
            ELSE IF tool[i] \in WorkflowTools
              THEN LET r == Run(tool[i], arg[i], k + 1, reqs, cr) IN
                     /\ operations' = [operations EXCEPT ![i] = AppendOperation(@, step.entry)]
                     /\ pc' = [pc EXCEPT ![i] = r.pc]
                     /\ requests' = [requests EXCEPT ![i] = r.requests]
                     /\ clientResult' = [clientResult EXCEPT ![i] = r.clientResult]
                     /\ result' = [result EXCEPT ![i] = r.result]
              ELSE /\ pc' = [pc EXCEPT ![i] = "done"]
                   /\ requests' = [requests EXCEPT ![i] = reqs]
                   /\ clientResult' = [clientResult EXCEPT ![i] = cr]
                   /\ result' = [result EXCEPT ![i] = cr]
                   /\ UNCHANGED operations
  /\ UNCHANGED <<config, tool, arg>>
  /\ UNCHANGED analysisVars
  /\ UNCHANGED clientVars

Next ==
  \/ \E i \in Inv, t \in Tools : \E a \in ArgsOf(t) : Start(i, t, a)
  \/ \E i \in Inv, o \in Outcomes : Respond(i, o)

Spec == Init /\ [][Next]_vars

(***************************************************************************)
(* Properties                                                              *)
(***************************************************************************)

IsPrefix(s, t) == Len(s) <= Len(t) /\ \A k \in 1..Len(s) : s[k] = t[k]

\* The client methods behind the requests of invocation i, in the order sent.
CallNames(i) == [k \in 1..Len(requests[i]) |-> requests[i][k].call]

\* The number of requests of invocation i the tracker has accepted.
OkCount(i) == Cardinality({k \in 1..Len(requests[i]) : requests[i][k].outcome = "ok"})

AllOk(i) == \A k \in 1..Len(requests[i]) : requests[i][k].outcome = "ok"

\* Every request but the last was accepted before the next one was sent.
Sequential(i) == \A k \in 1..(Len(requests[i]) - 1) : requests[i][k].outcome = "ok"

ReturnedSuccess(i) == pc[i] = "done" /\ result[i].kind = "return" /\ result[i].status = "success"

ClaimCalls == <<"assign_issue", "set_validator", "set_test_result">>
ClaimLog == <<"assigned", "validator_set", "test_result_in_progress">>
CloseCalls == <<"add_comment", "transition_issue", "set_test_result">>
PassLog == <<"comment_added", "transitioned_to_resolved", "test_result_pass">>
FailLog == <<"comment_added", "transitioned_to_reopened", "test_result_fail">>

\* C1: claim_for_qa sends its requests in the order assign_issue, set_validator,
\* set_test_result("in_progress"), never more than these three, each one only
\* after the previous one was answered successfully; the three requests all
\* succeed exactly when the workflow returns success, and then the operation log
\* is ["assigned", "validator_set", "test_result_in_progress"].
C1_ClaimForQaOrder ==
  \A i \in Inv : tool[i] = "qa_claim_ticket" =>
    /\ IsPrefix(CallNames(i), ClaimCalls)
    /\ Sequential(i)
    /\ \A k \in 1..Len(requests[i]) :
         requests[i][k].key = (IF k = 3 THEN "in_progress" ELSE arg[i])
    /\ (Len(requests[i]) = 3 /\ AllOk(i)) <=> ReturnedSuccess(i)
    /\ ReturnedSuccess(i) => operations[i] = ClaimLog

C1_Witness ==
  \E i \in Inv : /\ tool[i] = "qa_claim_ticket"
                 /\ ReturnedSuccess(i)
                 /\ CallNames(i) = ClaimCalls
                 /\ operations[i] = ClaimLog

\* C2: resolve_pass sends add_comment, transition_issue("resolved"),
\* set_test_result("pass") and fail_and_reopen sends add_comment,
\* transition_issue("reopened"), set_test_result("fail"), in that order; the log
\* has exactly 3 entries when all steps succeed; once a step has failed the
\* invocation is over, with no request after the failed one and no log entry
\* for it or for a later step.
C2_ResolveFailOrder ==
  \A i \in Inv : tool[i] \in {"qa_resolve_pass", "qa_fail_ticket"} =>
    LET pass == tool[i] = "qa_resolve_pass" IN
    /\ IsPrefix(CallNames(i), CloseCalls)
    /\ \A k \in 1..Len(requests[i]) :
         requests[i][k].key = (CASE k = 1 -> "comment"
                                 [] k = 2 -> (IF pass THEN "resolved" ELSE "reopened")
                                 [] k = 3 -> (IF pass THEN "pass" ELSE "fail"))
    /\ (Len(requests[i]) = 3 /\ AllOk(i)) =>
         /\ ReturnedSuccess(i)
         /\ operations[i] = (IF pass THEN PassLog ELSE FailLog)
    /\ \A k \in 1..Len(requests[i]) :
         requests[i][k].outcome \in {"status_error", "network_error"} =>
           /\ Len(requests[i]) = k
           /\ Len(operations[i]) = k - 1
           /\ pc[i] = "done"
           /\ ~ReturnedSuccess(i)
    /\ (pc[i] = "done" /\ clientResult[i].exc = "ValueError") =>
         /\ Len(operations[i]) = Len(requests[i])
         /\ ~ReturnedSuccess(i)

C2_Witness ==
  /\ \E i \in Inv : /\ tool[i] = "qa_resolve_pass"
                    /\ ReturnedSuccess(i)
                    /\ Len(operations[i]) = 3
  /\ \E j \in Inv : /\ tool[j] = "qa_fail_ticket"
                    /\ Len(requests[j]) = 2
                    /\ requests[j][2].outcome = "status_error"
                    /\ Len(operations[j]) = 1

\* C3: in every state of a workflow invocation the operation log is a prefix of
\* the workflow's step names and has one entry for each request of the
\* invocation that has completed successfully.
C3_LogIsPrefix ==
  \A i \in Inv : tool[i] \in WorkflowTools =>
    /\ IsPrefix(operations[i],
                CASE tool[i] = "qa_claim_ticket" -> ClaimLog
                  [] tool[i] = "qa_resolve_pass" -> PassLog
                  [] tool[i] = "qa_fail_ticket" -> FailLog)
    /\ Len(operations[i]) = OkCount(i)

C3_Witness ==
  \E i \in Inv : /\ tool[i] \in WorkflowTools
                 /\ pc[i] = "awaiting"
                 /\ Len(requests[i]) = 3
                 /\ Len(operations[i]) = 2

\* C4: a workflow invocation has a result with status "success" only if it sent
\* all three of its requests and all three succeeded.
C4_SuccessOnlyIfAll ==
  \A i \in Inv : (tool[i] \in WorkflowTools /\ result[i].status = "success") =>
    /\ Len(requests[i]) = 3
    /\ AllOk(i)

C4_Witness ==
  \E i \in Inv : /\ tool[i] \in WorkflowTools
                 /\ pc[i] = "done"
                 /\ OkCount(i) = 2
                 /\ result[i].status # "success"

\* The field of the ticket a client method writes.
FieldOf(call) ==
  CASE call = "assign_issue" -> "assignee"
    [] call = "set_validator" -> "validator"
    [] call = "set_test_result" -> "test_result"
    [] call = "transition_issue" -> "status"
    [] OTHER -> "comments"

\* The invocations other than i whose accepted requests wrote field f.
OtherWriters(f, i) ==
  {j \in Inv \ {i} : \E k \in 1..Len(requests[j]) :
     requests[j][k].outcome = "ok" /\ FieldOf(requests[j][k].call) = f}

\* C5: when a workflow has failed at step N, each field written by its steps
\* 1..N-1 still holds the value written (unless another invocation has written it
\* since), the fields of steps N..3 were not written by it, and it has sent no
\* request after the failed one.
C5_NoRollback ==
  \A i \in Inv : (tool[i] \in WorkflowTools /\ pc[i] = "done" /\ result[i].kind = "raise") =>
    LET n == OkCount(i) IN
    /\ Len(requests[i]) \in {n, n + 1}
    /\ \A k \in 1..n : requests[i][k].outcome = "ok"
    /\ \A k \in 1..n :
         LET f == FieldOf(requests[i][k].call) IN
         IF f = "comments"
           THEN i \in issue.comments
           ELSE \/ issue[f] = [val |-> requests[i][k].key, by |-> i]
                \/ issue[f].by \in OtherWriters(f, i)
    /\ \A f \in {"assignee", "validator", "test_result", "status"} :
         (\A k \in 1..n : FieldOf(requests[i][k].call) # f) => issue[f].by # i
    /\ (\A k \in 1..n : requests[i][k].call # "add_comment") => i \notin issue.comments

C5_Witness ==
  \E i \in Inv : /\ tool[i] = "qa_claim_ticket"
                 /\ pc[i] = "done"
                 /\ result[i].kind = "raise"
                 /\ Len(requests[i]) = 2
                 /\ requests[i][2].outcome = "network_error"
                 /\ issue.assignee = [val |-> arg[i], by |-> i]
                 /\ issue.validator.by # i

\* The closed set of status values the specification names.
FiveValues == {"pass", "fail", "in_progress", "blocked", "not_tested"}

RaisedValueError(r, keys) == r.kind = "raise" /\ r.exc = "ValueError" /\ r.lists = keys

\* C6 as stated: set_test_result accepts exactly {pass, fail, in_progress,
\* blocked, not_tested}; any other value fails before a request is sent, with an
\* error that lists these five values; a value of the set sends exactly one
\* update request.
C6_ClosedSetOfFive ==
  \A i \in Inv : (tool[i] = "set_test_result" /\ pc[i] # "idle") =>
    IF arg[i] \in FiveValues
      THEN Len(requests[i]) = 1
      ELSE requests[i] = <<>> /\ RaisedValueError(result[i], FiveValues)

\* C6 as amended: set_test_result accepts exactly the values whose lower-case
\* form is a key of the configured TEST_RESULT_VALUES table; any other value
\* raises ValueError before a request is sent, with a message that lists the
\* configured keys; an accepted value sends exactly one PUT carrying the option
\* the table holds for its lower-case form.
C6_ConfiguredSet ==
  \A i \in Inv : (tool[i] = "set_test_result" /\ pc[i] # "idle") =>
    IF Lower(arg[i]) \in DOMAIN config.TEST_RESULT_VALUES
      THEN /\ Len(requests[i]) = 1
           /\ requests[i][1].call = "set_test_result"
           /\ requests[i][1].verb = "PUT"
           /\ requests[i][1].body = config.TEST_RESULT_VALUES[Lower(arg[i])]
      ELSE /\ requests[i] = <<>>
           /\ pc[i] = "done"
           /\ RaisedValueError(result[i], DOMAIN config.TEST_RESULT_VALUES)

C6_Witness ==
  /\ \E i \in Inv : /\ tool[i] = "set_test_result"
                    /\ arg[i] = "PASS"
                    /\ Len(requests[i]) = 1
                    /\ requests[i][1].outcome = "ok"
                    /\ Cardinality(DOMAIN config.TEST_RESULT_VALUES) = 5
  /\ \E j \in Inv : /\ tool[j] = "set_test_result"
                    /\ arg[j] = "maybe"
                    /\ requests[j] = <<>>
                    /\ RaisedValueError(result[j], FiveValues)

\* C7 as stated: transition_issue with a name that is not a key of the
\* configured transition table fails before a request is sent, listing the
\* configured names, and the transition-ticket tool returns an error envelope;
\* with a name that is a key it sends exactly one request with the mapped id.
C7_UnknownTransitionByKey ==
  \A i \in Inv : (tool[i] = "qa_transition_ticket" /\ pc[i] # "idle") =>
    IF arg[i] \in DOMAIN config.JIRA_TRANSITIONS
      THEN /\ Len(requests[i]) = 1
           /\ requests[i][1].body = config.JIRA_TRANSITIONS[arg[i]]
      ELSE /\ requests[i] = <<>>
           /\ RaisedValueError(clientResult[i], DOMAIN config.JIRA_TRANSITIONS)
           /\ result[i].kind = "return" /\ result[i].status = "error"

\* C7 as amended: transition_issue with a name whose lower-case form has no
\* non-empty identifier in the configured transition table raises ValueError
\* before a request is sent, listing the configured names, and the
\* transition-ticket tool returns an error envelope with that message; with a
\* name whose lower-case form has one it sends exactly one POST carrying that
\* identifier.
C7_UnknownTransitionByLowerKey ==
  \A i \in Inv : (tool[i] = "qa_transition_ticket" /\ pc[i] # "idle") =>
    IF /\ Lower(arg[i]) \in DOMAIN config.JIRA_TRANSITIONS
       /\ config.JIRA_TRANSITIONS[Lower(arg[i])] # ""
      THEN /\ Len(requests[i]) = 1
           /\ requests[i][1].call = "transition_issue"
           /\ requests[i][1].verb = "POST"
           /\ requests[i][1].body = config.JIRA_TRANSITIONS[Lower(arg[i])]
      ELSE /\ requests[i] = <<>>
           /\ pc[i] = "done"
           /\ RaisedValueError(clientResult[i], DOMAIN config.JIRA_TRANSITIONS)
           /\ result[i] = [kind |-> "return", status |-> "error", exc |-> "",
                           error |-> "Unknown transition",
                           lists |-> DOMAIN config.JIRA_TRANSITIONS]

C7_Witness ==
  /\ \E i \in Inv : /\ tool[i] = "qa_transition_ticket"
                    /\ arg[i] = "Resolved"
                    /\ Len(requests[i]) = 1
                    /\ requests[i][1].body = "XXX"
  /\ \E j \in Inv : /\ tool[j] = "qa_transition_ticket"
                    /\ arg[j] = "bogus"
                    /\ requests[j] = <<>>
                    /\ result[j].status = "error"
                    /\ "resolved" \in result[j].lists

\* C8: an invocation that ends in a validation error (unknown status value or
\* unknown transition name) has sent no mutating request to the tracker.
C8_ValidationBeforeAnyMutation ==
  \A i \in Inv : (pc[i] = "done" /\ clientResult[i].exc = "ValueError") =>
    \A k \in 1..Len(requests[i]) : requests[i][k].verb \notin {"PUT", "POST"}

\* C9: every finished tool invocation of the dispatch layer returned an envelope
\* whose status is "success" or "error"; none ended by raising.
C9_AlwaysAnEnvelope ==
  \A i \in Inv : (pc[i] = "done" /\ tool[i] \in {"qa_claim_ticket", "qa_resolve_pass",
                    "qa_fail_ticket", "qa_add_comment", "qa_transition_ticket",
                    "qa_get_pr_info", "webex_post_message"}) =>
    /\ result[i].kind = "return"
    /\ result[i].status \in {"success", "error"}

\* C10: a client method whose request failed in transport returned an envelope
\* with status "error"; the exception did not escape the client method.
C10_TransportErrorCaught ==
  \A i \in Inv :
    (/\ pc[i] = "done"
     /\ requests[i] # <<>>
     /\ requests[i][Len(requests[i])].outcome \in {"status_error", "network_error"}) =>
    /\ clientResult[i].kind = "return"
    /\ clientResult[i].status = "error"


(***************************************************************************)
(* Prompt builder (prompts.py)                                             *)
(*                                                                         *)
(* A text is a sequence of blocks; a block records which piece of text it  *)
(* is (kind), whose it is (of), its ordinal where it has one (num), the    *)
(* characters it embeds (body, character codes) and the strings            *)
(* interpolated into it (aux).                                             *)
(***************************************************************************)

\* Longest comment list and longest comment body the inputs are drawn from.
MaxComments == 4
MaxContentLen == 203

\* comments[:3] and len(content) > 200 / content[:200]
EmbeddedComments == 3
TruncateAt == 200

Block(kind, of, num, body, aux) ==
  [kind |-> kind, of |-> of, num |-> num, body |-> body, aux |-> aux]

\* "..."
Ellipsis == <<46, 46, 46>>

RegisteredPersonas ==
  {"SENIOR_QA", "SENIOR_DEV", "SENIOR_PO", "DEVELOPMENT_TEAM", "SCRUM_MASTER",
   "BUSINESS_ANALYST", "TECHNICAL_LEADER"}

Persona == RegisteredPersonas \cup {"SECURITY_ENGINEER", "DEVOPS_ENGINEER"}

\* self.personas: every registered persona has texts of its own.
define_personas ==
  [p \in RegisteredPersonas |->
     [introduction |-> Block("introduction", p, 0, <<>>, <<>>),
      style_guide |-> Block("style_guide", p, 0, <<>>, <<>>)]]

TemplateKeys ==
  {"test-cases", "comment-summary", "root-cause-analysis", "reproduction-steps",
   "epic-analysis", "default"}

\* self.templates
define_templates ==
  [k \in TemplateKeys |->
     [instructions |-> Block("instructions", k, 0, <<>>, <<>>),
      output_format |-> Block("output_format", k, 0, <<>>, <<>>)]]

\* dict.get(key, default)
Get(d, key, default) == IF key \in DOMAIN d THEN d[key] ELSE default

\* A registry that resolves every persona to its own texts only.
PersonasGet_Total(persona, default) ==
  [introduction |-> Block("introduction", persona, 0, <<>>, <<>>),
   style_guide |-> Block("style_guide", persona, 0, <<>>, <<>>)]

\* self.personas.get(persona, self.personas[default])
PersonasGet(persona, default) == Get(define_personas, persona, define_personas[default])

\* Truncation that drops the marker.
Truncate_NoMarker(content) ==
  IF Len(content) > TruncateAt THEN SubSeq(content, 1, TruncateAt) ELSE content

\* if len(content) > 200: content = content[:200] + "..."
Truncate(content) ==
  IF Len(content) > TruncateAt THEN SubSeq(content, 1, TruncateAt) \o Ellipsis ELSE content

\* seq[:n]
Slice(seq, n) == SubSeq(seq, 1, IF Len(seq) < n THEN Len(seq) ELSE n)

\* A formatting step either raises or yields text.
Raises == [raised |-> TRUE, text |-> <<>>]
Returns(text) == [raised |-> FALSE, text |-> text]

\* A comment formats only if it is a mapping whose content has a length.
Formats(comment) == comment.shape = "ok"

\* The numbered lines of the first EmbeddedComments comments.
CommentLines(comments) ==
  LET shown == Slice(comments, EmbeddedComments) IN
  [j \in 1..Len(shown) |->
     Block("comment", shown[j].author, j, Truncate(shown[j].content), <<>>)]

format_ticket_context(ticket_data) ==
  LET ticket_key == Get(ticket_data, "ticketKey", "Unknown")
      title == Get(ticket_data, "title", "No title provided")
      description == Get(ticket_data, "description", "No description available")
      issue_type == Get(ticket_data, "issueType", "story")
      comments == Get(ticket_data, "comments", <<>>)
      info == Block("ticket", ticket_key, 0, <<>>, <<title, issue_type, description>>)
      shown == Slice(comments, EmbeddedComments)
  IN IF comments = <<>>
       THEN Returns(<<info>>)
       ELSE IF \E j \in 1..Len(shown) : ~Formats(shown[j])
         THEN Raises
         ELSE Returns(<<info, Block("recent_comments", "", 0, <<>>, <<>>)>>
                      \o CommentLines(comments))

get_fallback_prompt(ticket_data, analysis_type) ==
  <<Block("fallback", analysis_type, 0, <<>>,
          <<Get(ticket_data, "ticketKey", "Unknown"),
            Get(ticket_data, "title", "No title"),
            Get(ticket_data, "description", "No description provided")>>)>>

\* The body of the try block of build_analysis_prompt.
TryBuild(ticket_data, analysis_type, persona) ==
  LET persona_context == PersonasGet(persona, "SENIOR_QA")
      template == Get(define_templates, analysis_type, define_templates["default"])
      ticket_context == format_ticket_context(ticket_data)
  IN IF ticket_context.raised
       THEN Raises
       ELSE Returns(<<persona_context.introduction, template.instructions>>
                    \o ticket_context.text
                    \o <<template.output_format, persona_context.style_guide>>)

\* build_analysis_prompt without its except clause.
build_analysis_prompt_NoExcept(ticket_data, analysis_type, persona) ==
  TryBuild(ticket_data, analysis_type, persona)

build_analysis_prompt(ticket_data, analysis_type, persona) ==
  LET built == TryBuild(ticket_data, analysis_type, persona) IN
  IF built.raised
    THEN Returns(get_fallback_prompt(ticket_data, analysis_type))
    ELSE built

\* build_story_analysis_prompt: the introduction of the persona only.
build_story_analysis_prompt(ticket_data, persona) ==
  <<PersonasGet(persona, "DEVELOPMENT_TEAM").introduction>>

\* The wrappers fix the analysis type and the default persona.
build_test_cases_prompt(ticket_data) ==
  build_analysis_prompt(ticket_data, "test-cases", "SENIOR_QA")
build_comment_summary_prompt(ticket_data) ==
  build_analysis_prompt(ticket_data, "comment-summary", "BUSINESS_ANALYST")
build_root_cause_prompt(ticket_data) ==
  build_analysis_prompt(ticket_data, "root-cause-analysis", "TECHNICAL_LEADER")
build_reproduction_steps_prompt(ticket_data) ==
  build_analysis_prompt(ticket_data, "reproduction-steps", "TECHNICAL_LEADER")
build_epic_analysis_prompt(ticket_data) ==
  build_analysis_prompt(ticket_data, "epic-analysis", "SENIOR_PO")

(***************************************************************************)
(* Inputs of the prompt builder                                            *)
(***************************************************************************)

\* The characters of the body of comment j, L characters long.
Content(j, L) == [k \in 1..L |-> 97 + ((k + j) % 5)]

ContentShapes == {"short", "exact", "over", "long", "null_content", "not_a_dict"}

ContentLen(j, shape) ==
  CASE shape = "short" -> j
    [] shape = "exact" -> TruncateAt
    [] shape = "over" -> TruncateAt + 1
    [] shape = "long" -> MaxContentLen
    [] OTHER -> 0

\* {"author": ..., "content": ...}, or a value that is no such mapping.
Comment(j, shape) ==
  [author |-> "user" \o ToString(j),
   content |-> Content(j, ContentLen(j, shape)),
   shape |-> IF shape \in {"null_content", "not_a_dict"} THEN shape ELSE "ok"]

\* n comments, short ones but the one at position p.
CommentList(n, p, shape) ==
  [j \in 1..n |-> Comment(j, IF j = p THEN shape ELSE "short")]

CommentLists ==
  {CommentList(n, p, shape) : n \in 0..MaxComments, p \in 0..MaxComments, shape \in ContentShapes}

TicketKey == "TEST-123"

\* A ticket with its key and nothing else.
BareTicket == [ticketKey |-> TicketKey]

FullTicket(comments) ==
  [ticketKey |-> TicketKey, title |-> "Login fails", description |-> "Steps",
   issueType |-> "bug", comments |-> comments]

KeylessTicket(comments) ==
  [title |-> "Login fails", description |-> "Steps", issueType |-> "bug",
   comments |-> comments]

TicketDatas ==
  {BareTicket} \cup {FullTicket(c) : c \in CommentLists}
               \cup {KeylessTicket(c) : c \in CommentLists}

AnalysisTypes == TemplateKeys \cup {"unknown-type"}

(***************************************************************************)
(* The prompt builder called on its own                                    *)
(***************************************************************************)

InitPrompt ==
  /\ InitWorkflow
  /\ config = FallbackConfig
  /\ ai_client = "None"
  /\ handlers = "None"
  /\ jira = "None"
  /\ task = [pos |-> "idle"]
  /\ InitClients
  /\ pb \in {[pos |-> "called", ticket_data |-> td, analysis_type |-> ty, persona |-> p,
              raised |-> FALSE, prompt |-> <<>>] :
               td \in TicketDatas, ty \in AnalysisTypes, p \in Persona}

BuildAnalysisPrompt ==
  /\ pb.pos = "called"
  /\ LET out == build_analysis_prompt(pb.ticket_data, pb.analysis_type, pb.persona) IN
       pb' = [pb EXCEPT !.pos = "returned", !.raised = out.raised, !.prompt = out.text]
  /\ UNCHANGED workflowVars
  /\ UNCHANGED <<ai_client, handlers, jira, task>>
  /\ UNCHANGED clientVars

NextPrompt == BuildAnalysisPrompt

SpecPrompt == InitPrompt /\ [][NextPrompt]_vars


(***************************************************************************)
(* Properties of the prompt builder                                        *)
(***************************************************************************)

Returned == pb.pos = "returned"
IsFallback(prompt) == Len(prompt) = 1 /\ prompt[1].kind = "fallback"
InputComments == IF "comments" \in DOMAIN pb.ticket_data THEN pb.ticket_data.comments ELSE <<>>
WellFormedInput == \A j \in 1..Len(InputComments) : InputComments[j].shape = "ok"
TemplateFor(ty) == IF ty \in TemplateKeys THEN ty ELSE "default"
Has(prompt, i, kind, of) == prompt[i].kind = kind /\ prompt[i].of = of
Min(a, b) == IF a < b THEN a ELSE b

\* C11: for every persona and analysis type (and a ticket whose comments are
\* well formed) the prompt holds, in this order, the introduction of that
\* persona, the instructions of the template, a ticket block with the ticket
\* key, the output format of the template and the style guide of that persona.
C11_FiveBlocksInOrder ==
  (Returned /\ WellFormedInput) =>
    \E i1, i2, i3, i4, i5 \in 1..Len(pb.prompt) :
      /\ i1 < i2 /\ i2 < i3 /\ i3 < i4 /\ i4 < i5
      /\ Has(pb.prompt, i1, "introduction", pb.persona)
      /\ Has(pb.prompt, i2, "instructions", TemplateFor(pb.analysis_type))
      /\ pb.prompt[i3].kind = "ticket"
      /\ "ticketKey" \in DOMAIN pb.ticket_data => pb.prompt[i3].of = pb.ticket_data.ticketKey
      /\ Has(pb.prompt, i4, "output_format", TemplateFor(pb.analysis_type))
      /\ Has(pb.prompt, i5, "style_guide", pb.persona)

EmbeddedLines == SelectSeq(pb.prompt, LAMBDA b : b.kind = "comment")

\* C12: the context holds exactly the first min(3, n) comments in their order;
\* a body of more than 200 characters is embedded as its first 200 characters
\* followed by "...", a shorter one verbatim, so no embedded body is longer
\* than 203 characters.
C12_FirstThreeTruncated ==
  (Returned /\ ~IsFallback(pb.prompt)) =>
    /\ Len(EmbeddedLines) = Min(3, Len(InputComments))
    /\ \A j \in 1..Len(EmbeddedLines) :
         LET body == InputComments[j].content IN
         /\ EmbeddedLines[j].num = j
         /\ EmbeddedLines[j].of = InputComments[j].author
         /\ Len(body) > 200 =>
              EmbeddedLines[j].body = SubSeq(body, 1, 200) \o <<46, 46, 46>>
         /\ Len(body) <= 200 => EmbeddedLines[j].body = body
         /\ Len(EmbeddedLines[j].body) <= 203

\* A list of more than three comments, a long one among the first three,
\* embedded cut with its marker.
C12_Witness ==
  /\ Returned /\ ~IsFallback(pb.prompt)
  /\ Len(InputComments) > 3
  /\ \E j \in 1..3 : Len(InputComments[j].content) > 201 /\ Len(EmbeddedLines[j].body) = 203

C15_RegistryTotal ==
  (Returned /\ ~IsFallback(pb.prompt)) =>
    /\ pb.persona \in DOMAIN define_personas
    /\ pb.prompt[1] = Block("introduction", pb.persona, 0, <<>>, <<>>)
    /\ pb.prompt[Len(pb.prompt)] = Block("style_guide", pb.persona, 0, <<>>, <<>>)


(***************************************************************************)
(* Analysis handlers (handlers.py)                                         *)
(*                                                                         *)
(* A handler is synchronous: it runs from its call to its return without   *)
(* an await, its calls of the tracker client and of the model included.    *)
(* What these calls answer is the environment env of the call.             *)
(***************************************************************************)

\* Most linked issues an epic of the inputs has.
MaxLinked == 21

\* epic_issues[:20]
EpicCap == 20

\* What ask_openai answers: a text, a text with white space around it, an
\* empty text, None, or an exception.
ModelOutcomes == {"text", "padded", "empty", "None", "raise"}
Truthy(mo) == mo \in {"text", "padded"}
TextOf(mo) ==
  CASE mo = "text" -> "answer"
    [] mo = "padded" -> " answer "
    [] OTHER -> ""

\* str.strip() on the texts of the model.
Strip(s) ==
  CASE s = " answer " -> "answer"
    [] s = " question " -> "question"
    [] s = "  " -> ""
    [] OTHER -> s

\* The tracker client a handler holds: none, the server's JiraClient (which
\* has neither a jira attribute nor fetch_issue_details), or an object that
\* has the attributes the handlers use.
JiraKinds == {"None", "JiraClient", "Compatible"}

TrackerCall(call, key) == [call |-> call, key |-> key]

\* The strings a handler returns.
ModelText(text) == [kind |-> "model_text", label |-> "", key |-> "", text |-> text]
Unable(label, key) == [kind |-> "unable", label |-> label, key |-> key, text |-> ""]
ErrorString(label, key) == [kind |-> "error", label |-> label, key |-> key, text |-> ""]
NoComments(key) == [kind |-> "no_comments", label |-> "", key |-> key, text |-> ""]
Nothing == [kind |-> "nothing", label |-> "", key |-> "", text |-> ""]

\* How a handler call ends, the tracker calls it made and the prompts it
\* passed to the model.
HReturn(value, tracker, prompts) ==
  [raised |-> FALSE, value |-> value, tracker |-> tracker, prompts |-> prompts]
HRaise(tracker, prompts) ==
  [raised |-> TRUE, value |-> Nothing, tracker |-> tracker, prompts |-> prompts]

\* if self.ai_client: result = ask_openai(prompt); if result: return result
\* return "Unable to generate ..."; except: return "Error generating ..."
AskAndReturn(label, key, prompt, ai, mo, tracker) ==
  IF ai = "None"
    THEN HReturn(Unable(label, key), tracker, <<>>)
    ELSE IF mo = "raise"
      THEN HReturn(ErrorString(label, key), tracker, <<prompt>>)
      ELSE IF Truthy(mo)
        THEN HReturn(ModelText(TextOf(mo)), tracker, <<prompt>>)
        ELSE HReturn(Unable(label, key), tracker, <<prompt>>)

handle_test_cases(request_data, ai, mo) ==
  AskAndReturn("test cases", Get(request_data, "ticketKey", ""),
               build_test_cases_prompt(request_data).text, ai, mo, <<>>)

handle_root_cause(request_data, ai, mo) ==
  AskAndReturn("root cause analysis", Get(request_data, "ticketKey", ""),
               build_root_cause_prompt(request_data).text, ai, mo, <<>>)

handle_reproduction_steps(request_data, ai, mo) ==
  AskAndReturn("reproduction steps", Get(request_data, "ticketKey", ""),
               build_reproduction_steps_prompt(request_data).text, ai, mo, <<>>)

handle_comment_summary(request_data, ai, jc, env) ==
  LET ticket_key == Get(request_data, "ticketKey", "")
      given == Get(request_data, "comments", <<>>)
      fetch == given = <<>> /\ jc # "None"
      tracker == IF fetch /\ jc = "Compatible"
                   THEN <<TrackerCall("fetch_issue_details", ticket_key)>> ELSE <<>>
      comments == IF fetch THEN env.fetched ELSE given
      ticket_data == [ticketKey |-> ticket_key, comments |-> comments,
                      title |-> Get(request_data, "title", ""),
                      description |-> Get(request_data, "description", "")]
  IN IF fetch /\ (jc = "JiraClient" \/ env.query = "fail")
       THEN HReturn(ErrorString("comment summary", ticket_key), tracker, <<>>)
       ELSE IF comments = <<>>
         THEN HReturn(NoComments(ticket_key), tracker, <<>>)
         ELSE AskAndReturn("comment summary", ticket_key,
                           build_comment_summary_prompt(ticket_data).text, ai, env.model, tracker)

\* The outcome of check_fix_version: the diagnostic, the names it reports and
\* the tracker calls made.
check_fix_version(ticket, jc, env) ==
  LET key == Get(ticket, "ticketKey", "N/A")
      fix_versions == env.versions
  IN IF jc # "Compatible"
       THEN [diag |-> "Could not check fix version", names |-> <<>>, tracker |-> <<>>]
       ELSE LET tracker == <<TrackerCall("jira.issue", key)>> IN
            IF env.query = "fail"
              THEN [diag |-> "Could not check fix version", names |-> <<>>, tracker |-> tracker]
              ELSE IF fix_versions = <<>>
                THEN [diag |-> "Missing fix version", names |-> <<>>, tracker |-> tracker]
                ELSE IF Len(fix_versions) > 1
                  THEN [diag |-> "Multiple fix versions", names |-> fix_versions, tracker |-> tracker]
                  ELSE [diag |-> "Fix version is valid", names |-> <<fix_versions[1]>>,
                        tracker |-> tracker]

\* StoryAnalysisHandler.handle
handle(ticket_data, ai, jc, env) ==
  LET ticket_key == Get(ticket_data, "ticketKey", "N/A")
      comments == Get(ticket_data, "comments", <<>>)
      shown == Slice(comments, EmbeddedComments)
      check_result == check_fix_version(ticket_data, jc, env)
      prompt == build_story_analysis_prompt(ticket_data, "DEVELOPMENT_TEAM")
                \o <<Block("story", ticket_key, 0, <<>>,
                           <<Get(ticket_data, "title", ""), Get(ticket_data, "issueType", "story"),
                             Get(ticket_data, "status", ""), Get(ticket_data, "description", "")>>)>>
                \o (IF comments = <<>>
                      THEN <<Block("no_recent_comments", "", 0, <<>>, <<>>)>>
                      ELSE CommentLines(comments))
                \o <<Block("story_sections", "", 0, <<>>, <<>>),
                     Block("fix_version_check", check_result.diag, 0, <<>>, check_result.names)>>
  IN IF \E j \in 1..Len(shown) : ~Formats(shown[j])
       THEN HRaise(<<>>, <<>>)
       ELSE IF ai = "None"
         THEN HRaise(check_result.tracker, <<>>)
         ELSE IF env.model = "raise"
           THEN HRaise(check_result.tracker, <<prompt>>)
           ELSE HReturn(ModelText(IF Truthy(env.model) THEN Strip(TextOf(env.model)) ELSE ""),
                        check_result.tracker, <<prompt>>)

LinkedKey(j) == "STORY-" \o ToString(j)

\* The fetches of the loop over epic_issues[:20], up to the one that raises.
EpicFetches(n, fail_at) ==
  LET shown == IF n < EpicCap THEN n ELSE EpicCap
      made == IF fail_at \in 1..shown THEN fail_at ELSE shown
  IN [j \in 1..made |-> TrackerCall("fetch_issue_details", LinkedKey(j))]

handle_epic_analysis(request_data, ai, jc, env) ==
  LET epic_key == Get(request_data, "epicKey", Get(request_data, "ticketKey", "None"))
      shown == IF env.linked < EpicCap THEN env.linked ELSE EpicCap
      tracker == <<TrackerCall("jira.jql", epic_key)>>
                 \o (IF env.query = "fail" THEN <<>> ELSE EpicFetches(env.linked, env.fail_at))
      prompt == <<Block("epic", epic_key, 0, <<>>,
                        <<Get(request_data, "title", ""),
                          Get(request_data, "primaryOwningTeam", "")>>)>>
                \o [j \in 1..shown |-> Block("epic_ticket", LinkedKey(j), j, <<>>, <<>>)]
                \o <<Block("epic_questions", "", 0, <<>>, <<>>)>>
  IN IF jc # "Compatible"
       THEN HReturn(ErrorString("epic", epic_key), <<>>, <<>>)
       ELSE IF env.query = "fail" \/ env.fail_at \in 1..shown
         THEN HReturn(ErrorString("epic", epic_key), tracker, <<>>)
         ELSE IF ai = "None"
           THEN HReturn(ErrorString("epic", epic_key), tracker, <<>>)
           ELSE IF env.model = "raise"
             THEN HReturn(ErrorString("epic", epic_key), tracker, <<prompt>>)
             ELSE IF Truthy(env.model)
               THEN HReturn(ModelText(TextOf(env.model)), tracker, <<prompt>>)
               ELSE HReturn(Unable("analyze epic", epic_key), tracker, <<prompt>>)

\* Longest comment list summarize_comments is called with.
MaxSummarized == 3

\* What a list passed to summarize_comments may hold: strings, blank or not,
\* and values that are no strings.
SummaryItems ==
  {[type |-> "str", text |-> t] : t \in {"", "  ", "blocker", " question "}}
    \cup {[type |-> "other", text |-> ""]}

SummaryLists == UNION {[1..n -> SummaryItems] : n \in 0..MaxSummarized}

\* sep.join(parts)
Join(parts, sep) ==
  [k \in 1..(2 * Len(parts) - 1) |-> IF k % 2 = 1 THEN parts[(k + 1) \div 2] ELSE sep]

\* The list comprehension without its condition.
StrippedTexts_Unfiltered(comments) ==
  [j \in 1..Len(comments) |-> Block("text", Strip(comments[j].text), 0, <<>>, <<>>)]

\* [c.strip() for c in comments if isinstance(c, str) and c.strip()]
StrippedTexts(comments) ==
  LET kept == SelectSeq(comments, LAMBDA c : c.type = "str" /\ Strip(c.text) # "") IN
  [j \in 1..Len(kept) |-> Block("text", Strip(kept[j].text), 0, <<>>, <<>>)]

\* EpicAnalysisHandler.summarize_comments
summarize_comments(comments, mo) ==
  LET combined_text == Join(StrippedTexts(comments), Block("blank_line", "", 0, <<>>, <<>>))
      summary_prompt == <<Block("summary_request", "", 0, <<>>, <<>>)>> \o combined_text
                        \o <<Block("summary_wanted", "", 0, <<>>, <<>>)>>
  IN IF combined_text = <<>>
       THEN HReturn(ModelText(""), <<>>, <<>>)
       ELSE IF mo = "raise"
         THEN HRaise(<<>>, <<summary_prompt>>)
         ELSE HReturn(ModelText(IF mo = "None" THEN "" ELSE Strip(TextOf(mo))),
                      <<>>, <<summary_prompt>>)

Handlers ==
  {"test_cases", "comment_summary", "root_cause", "reproduction_steps",
   "story_analysis", "epic_analysis"}

\* handlers[name].<method>(request_data)
CallOf(name, request_data, ai, jc, env) ==
  CASE name = "test_cases" -> handle_test_cases(request_data, ai, env.model)
    [] name = "root_cause" -> handle_root_cause(request_data, ai, env.model)
    [] name = "reproduction_steps" -> handle_reproduction_steps(request_data, ai, env.model)
    [] name = "comment_summary" -> handle_comment_summary(request_data, ai, jc, env)
    [] name = "story_analysis" -> handle(request_data, ai, jc, env)
    [] name = "epic_analysis" -> handle_epic_analysis(request_data, ai, jc, env)


(***************************************************************************)
(* AI client, handlers and AI tools of the server (server.py)              *)
(***************************************************************************)

Globals == [ai_client |-> ai_client, handlers |-> handlers, jira |-> jira]

\* get_ai_client: ai_ok says whether SecretManager() and AIClient() succeed now.
get_ai_client(g, ai_ok) ==
  IF g.ai_client = "None"
    THEN [g EXCEPT !.ai_client = IF ai_ok THEN "AIClient" ELSE "None"]
    ELSE g

\* get_jira: url_set says whether JIRA_URL is set when JiraClient() runs.
get_jira(g, url_set) ==
  IF g.jira # "None"
    THEN [raised |-> FALSE, g |-> g]
    ELSE IF url_set
      THEN [raised |-> FALSE, g |-> [g EXCEPT !.jira = "JiraClient"]]
      ELSE [raised |-> TRUE, g |-> g]

\* A get_handlers that builds the set anew on every call.
get_handlers_Uncached(g, ai_ok, url_set) ==
  IF ai_ok /\ url_set
    THEN [value |-> "built", g |-> [g EXCEPT !.ai_client = "AIClient", !.jira = "JiraClient", !.handlers = "built"]]
    ELSE [value |-> "None", g |-> [g EXCEPT !.handlers = "None"]]

\* get_handlers: the cached set, or a set built from the AI client and the
\* tracker client; None when either cannot be had.
get_handlers(g, ai_ok, url_set) ==
  IF g.handlers # "None"
    THEN [value |-> g.handlers, g |-> g]
    ELSE LET g1 == get_ai_client(g, ai_ok) IN
         IF g1.ai_client = "None"
           THEN [value |-> "None", g |-> g1]
           ELSE LET j == get_jira(g1, url_set) IN
                IF j.raised
                  THEN [value |-> "None", g |-> j.g]
                  ELSE [value |-> "built", g |-> [j.g EXCEPT !.handlers = "built"]]

\* A tool that goes on whatever get_handlers returned.
Available_Unchecked(h) == TRUE

\* if handlers is None: return {"status": "error", ...}
Available(h) == h # "None"

AITools ==
  {"qa_generate_test_cases", "qa_summarize_comments", "qa_root_cause_analysis",
   "qa_generate_reproduction_steps", "qa_analyze_story", "qa_analyze_epic"}

HandlerOf(t) ==
  CASE t = "qa_generate_test_cases" -> "test_cases"
    [] t = "qa_summarize_comments" -> "comment_summary"
    [] t = "qa_root_cause_analysis" -> "root_cause"
    [] t = "qa_generate_reproduction_steps" -> "reproduction_steps"
    [] t = "qa_analyze_story" -> "story_analysis"
    [] t = "qa_analyze_epic" -> "epic_analysis"

\* The tools that fetch the issue only when title or description is not given.
FetchesIfMissing(t) ==
  t \in {"qa_generate_test_cases", "qa_root_cause_analysis", "qa_generate_reproduction_steps"}

\* What a tool returns or raises.
Envelope(status, error, payload) ==
  [kind |-> "return", status |-> status, error |-> error, payload |-> payload]
ToolRaises(exc) == [kind |-> "raise", status |-> "", error |-> exc, payload |-> Nothing]
NoEnvelope == [kind |-> "none", status |-> "", error |-> "", payload |-> Nothing]

\* The issue as the tracker holds it: its comments oldest first, its fix
\* versions and, for an epic, the number of issues linked to it.
TrackerComment(j, shape) ==
  [author |-> "user" \o ToString(j),
   body |-> Content(j, ContentLen(j, shape)),
   created |-> j,
   shape |-> IF shape = "null_content" THEN shape ELSE "ok"]

TrackerComments(n, p, shape) ==
  [j \in 1..n |-> TrackerComment(j, IF j = p THEN shape ELSE "short")]

TrackerCommentLists ==
  {TrackerComments(n, p, shape) :
     n \in 0..MaxComments, p \in 0..MaxComments, shape \in {"short", "long", "null_content"}}

VersionLists == {<<>>, <<"1.0">>, <<"1.0", "2.0">>}

TrackerIssue(comments, versions, linked) ==
  [summary |-> "Login fails", description |-> "Steps", status |-> "Open",
   issuetype |-> "Story", comments |-> comments, versions |-> versions, linked |-> linked]

NoIssue == TrackerIssue(<<>>, <<>>, 0)

IssuesFor(t) ==
  CASE t = "qa_summarize_comments" -> {TrackerIssue(c, <<>>, 0) : c \in TrackerCommentLists}
    [] t = "qa_analyze_story" ->
         {TrackerIssue(c, v, 0) : c \in TrackerCommentLists, v \in VersionLists}
    [] t = "qa_analyze_epic" -> {TrackerIssue(<<>>, <<>>, n) : n \in 0..MaxLinked}
    [] OTHER -> {NoIssue}

\* {"author": c["author"]["displayName"], "content": c.get("body", "")}
RequestComments(comments) ==
  [j \in 1..Len(comments) |->
     [author |-> comments[j].author, content |-> comments[j].body, shape |-> comments[j].shape]]

\* request_data as the tool builds it from its arguments and the issue.
RequestData(t, title, description, iss) ==
  CASE t = "qa_summarize_comments" ->
         [ticketKey |-> TicketKey, title |-> iss.summary, description |-> iss.description,
          comments |-> RequestComments(iss.comments)]
    [] t = "qa_analyze_story" ->
         [ticketKey |-> TicketKey, title |-> iss.summary, description |-> iss.description,
          status |-> iss.status, issueType |-> iss.issuetype,
          comments |-> RequestComments(iss.comments)]
    [] t = "qa_analyze_epic" ->
         [epicKey |-> TicketKey, ticketKey |-> TicketKey, title |-> iss.summary,
          primaryOwningTeam |-> ""]
    [] OTHER -> [ticketKey |-> TicketKey, title |-> title, description |-> description]

\* What the calls of a handler meet: the answer of the model, whether the
\* tracker answers its queries, and what the tracker holds.
Env(model, query, fetched, versions, linked, fail_at) ==
  [model |-> model, query |-> query, fetched |-> fetched, versions |-> versions,
   linked |-> linked, fail_at |-> fail_at]

NoEnv == Env("None", "ok", <<>>, <<>>, 0, 0)

NoRequest == [ticketKey |-> ""]


\* One AI-analysis call: where it stands, whether a tool of the server or a
\* handler was called, the calls it made and how it ended.
Task(pos, via, name, tracker, called, request, ai, jc, env, iss, prompts, out) ==
  [pos |-> pos, via |-> via, name |-> name, tracker |-> tracker, called |-> called,
   request |-> request, ai |-> ai, jc |-> jc, env |-> env, iss |-> iss,
   prompts |-> prompts, out |-> out]

\* handlers[name].<method>(request_data), and the return of what it returned.
RunHandler(via, name, handler, tracker, request, ai, jc, env, iss) ==
  LET r == CallOf(handler, request, ai, jc, env) IN
  Task("returned", via, name, tracker \o r.tracker, <<handler>>, request, ai, jc, env, iss,
       r.prompts,
       IF r.raised THEN ToolRaises("handler") ELSE Envelope("success", "", r.value))

\* The tool ends before it calls a handler.
EndTool(name, tracker, out) ==
  Task("returned", "tool", name, tracker, <<>>, NoRequest, "None", "None", NoEnv, NoIssue,
       <<>>, out)

\* Subscripting what get_handlers returned.
HandlerLookup(name, h, tracker, request, env, iss, g) ==
  IF h = "None"
    THEN EndTool(name, tracker, ToolRaises("TypeError"))
    ELSE RunHandler("tool", name, HandlerOf(name), tracker, request, g.ai_client, g.jira, env, iss)

\* An AI tool from its call to its first await, or to its end.
ToolStart(t, given, g, ai_ok, url_set, mo) ==
  LET h == get_handlers(g, ai_ok, url_set)
      j == get_jira(h.g, url_set)
  IN IF ~Available(h.value)
       THEN [g |-> h.g,
             task |-> EndTool(t, <<>>, Envelope("error", "AI client not available", Nothing))]
       ELSE IF FetchesIfMissing(t) /\ given
         THEN [g |-> h.g,
               task |-> HandlerLookup(t, h.value, <<>>, RequestData(t, "Login fails", "Steps", NoIssue),
                                      Env(mo, "ok", <<>>, <<>>, 0, 0), NoIssue, h.g)]
         ELSE IF j.raised
           THEN [g |-> j.g, task |-> EndTool(t, <<>>, ToolRaises("ValueError"))]
           ELSE [g |-> j.g,
                 task |-> Task("awaiting", "tool", t, <<TrackerCall("get_issue", TicketKey)>>, <<>>,
                               NoRequest, "None", "None", NoEnv, NoIssue, <<>>, NoEnvelope)]

\* An AI tool from the answer to its get_issue request to its end.
ToolResume(t, tracker, g, o, iss, mo) ==
  LET env == Env(mo, "ok", <<>>, iss.versions, iss.linked, 0) IN
  IF o = "error"
    THEN EndTool(t, tracker, ToolRaises("HTTPError"))
    ELSE IF o = "empty"
      THEN IF FetchesIfMissing(t)
             THEN HandlerLookup(t, g.handlers, tracker, RequestData(t, "", "", NoIssue),
                                Env(mo, "ok", <<>>, <<>>, 0, 0), NoIssue, g)
             ELSE EndTool(t, tracker, Envelope("error", "not found", Nothing))
      ELSE HandlerLookup(t, g.handlers, tracker,
                         RequestData(t, iss.summary, iss.description, iss), env, iss, g)

\* What the handlers are called with when called on their own.
RequestDatas(name) ==
  IF name = "epic_analysis"
    THEN {[epicKey |-> TicketKey, ticketKey |-> TicketKey, title |-> "Epic", primaryOwningTeam |-> "qa"],
          [ticketKey |-> TicketKey]}
    ELSE {BareTicket, FullTicket(<<>>)}
         \cup {FullTicket(CommentList(MaxComments, p, shape)) :
                 p \in {1, MaxComments}, shape \in {"short", "long", "null_content", "not_a_dict"}}

EpicFailures(n) == {0, 1, IF n < EpicCap THEN n ELSE EpicCap}

EnvsFor(name) ==
  CASE name = "comment_summary" ->
         {Env(mo, q, f, <<>>, 0, 0) :
            mo \in ModelOutcomes, q \in {"ok", "fail"}, f \in {<<>>, CommentList(1, 0, "short")}}
    [] name = "story_analysis" ->
         {Env(mo, q, <<>>, v, 0, 0) : mo \in ModelOutcomes, q \in {"ok", "fail"}, v \in VersionLists}
    [] name = "epic_analysis" ->
         UNION {{Env(mo, q, <<>>, <<>>, n, k) : mo \in ModelOutcomes, q \in {"ok", "fail"},
                                                k \in EpicFailures(n)} : n \in 0..MaxLinked}
    [] OTHER -> {Env(mo, "ok", <<>>, <<>>, 0, 0) : mo \in ModelOutcomes}

(***************************************************************************)
(* Actions of the AI analysis                                              *)
(***************************************************************************)

InitTools ==
  /\ InitWorkflow
  /\ config = FallbackConfig
  /\ InitAnalysis
  /\ InitClients

InvokeTool(t, given, ai_ok, url_set, mo) ==
  /\ task.pos = "idle"
  /\ LET r == ToolStart(t, given, Globals, ai_ok, url_set, mo) IN
       /\ ai_client' = r.g.ai_client
       /\ handlers' = r.g.handlers
       /\ jira' = r.g.jira
       /\ task' = r.task
  /\ UNCHANGED workflowVars
  /\ UNCHANGED pb
  /\ UNCHANGED clientVars

IssueResponse(o, iss, mo) ==
  /\ task.pos = "awaiting"
  /\ iss \in IssuesFor(task.name)
  /\ task' = ToolResume(task.name, task.tracker, Globals, o, iss, mo)
  /\ UNCHANGED workflowVars
  /\ UNCHANGED <<pb, ai_client, handlers, jira>>
  /\ UNCHANGED clientVars

\* A handler called on its own, with the clients it was constructed with.
CallHandler(name, request, ai, jc, env) ==
  /\ task.pos = "idle"
  /\ task' = RunHandler("handler", name, name, <<>>, request, ai, jc, env, NoIssue)
  /\ UNCHANGED workflowVars
  /\ UNCHANGED <<pb, ai_client, handlers, jira>>
  /\ UNCHANGED clientVars

\* The comment-summarization helper of the epic handler called with a list.
CallSummarize(comments, mo) ==
  /\ task.pos = "idle"
  /\ LET r == summarize_comments(comments, mo) IN
       task' = Task("returned", "helper", "summarize_comments", r.tracker, <<>>,
                    [comments |-> comments], "AIClient", "None",
                    Env(mo, "ok", <<>>, <<>>, 0, 0), NoIssue, r.prompts,
                    IF r.raised THEN ToolRaises("handler") ELSE Envelope("", "", r.value))
  /\ UNCHANGED workflowVars
  /\ UNCHANGED <<pb, ai_client, handlers, jira>>
  /\ UNCHANGED clientVars

\* The caller has the result; the next call may come.
Return ==
  /\ task.pos = "returned"
  /\ task' = [pos |-> "idle"]
  /\ UNCHANGED workflowVars
  /\ UNCHANGED <<pb, ai_client, handlers, jira>>
  /\ UNCHANGED clientVars

NextTools ==
  \/ /\ task.pos = "idle"
     /\ \E t \in AITools, given \in BOOLEAN, ai_ok \in BOOLEAN, url_set \in BOOLEAN,
           mo \in ModelOutcomes : InvokeTool(t, given, ai_ok, url_set, mo)
  \/ /\ task.pos = "awaiting"
     /\ \E o \in {"ok", "empty", "error"}, iss \in IssuesFor(task.name), mo \in ModelOutcomes :
           IssueResponse(o, iss, mo)
  \/ /\ task.pos = "idle"
     /\ \E name \in Handlers, ai \in {"None", "AIClient"}, jc \in JiraKinds :
           \E request \in RequestDatas(name), env \in EnvsFor(name) :
              CallHandler(name, request, ai, jc, env)
  \/ /\ task.pos = "idle"
     /\ \E comments \in SummaryLists, mo \in ModelOutcomes : CallSummarize(comments, mo)
  \/ Return

SpecTools == InitTools /\ [][NextTools]_vars


(***************************************************************************)
(* Properties of the AI analysis                                           *)
(***************************************************************************)

Done == task.pos = "returned"
ByTool == task.pos # "idle" /\ task.via = "tool"
HandlerRan == Done /\ task.called # <<>>
ModelAsked == HandlerRan /\ task.prompts # <<>>
LinesOf(prompt, kind) == SelectSeq(prompt, LAMBDA b : b.kind = kind)
Range(seq) == {seq[j] : j \in 1..Len(seq)}

\* The comments of the issue that three or more others do not postdate.
MostRecent(comments) ==
  {c \in Range(comments) : Cardinality({d \in Range(comments) : d.created > c.created}) < 3}

\* C13: when summarize-comments or analyze-story passes the comments of a
\* ticket that has more than three, the (well-formed) comments embedded in the
\* prompt are the three with the latest creation time.
C13_MostRecentThree ==
  (/\ ModelAsked /\ ByTool
   /\ task.name \in {"qa_summarize_comments", "qa_analyze_story"}
   /\ Len(task.iss.comments) > 3
   /\ \A j \in 1..Len(task.iss.comments) : task.iss.comments[j].shape = "ok")
  => {b.of : b \in Range(LinesOf(task.prompts[1], "comment"))}
       = {c.author : c \in MostRecent(task.iss.comments)}

\* C16: no analysis handler raises, whatever the request, the tracker and the
\* model do: every handler call ends in a returned string.
C16_HandlersNeverRaise ==
  HandlerRan => task.out.kind = "return"

\* C17: in every handler a model call that yields None or the empty text makes
\* the handler return its "Unable to ..." string for the ticket, and a model
\* call that yields a text makes it return that text.
C17_NoTextMeansUnable ==
  (ModelAsked /\ task.env.model # "raise") =>
    /\ task.out.kind = "return"
    /\ task.env.model \in {"None", "empty"} => task.out.payload.kind = "unable"
    /\ task.env.model \in {"text", "padded"} =>
         /\ task.out.payload.kind = "model_text"
         /\ task.out.payload.text \in {"answer", " answer "}

\* C18: when no AI client can be initialised, every AI tool returns the
\* envelope {status: "error", error: "AI client not available"} and has called
\* no handler, the tracker or the model.
C18_NoClientNoCalls ==
  (ByTool /\ ai_client = "None") =>
    /\ Done
    /\ task.out = Envelope("error", "AI client not available", Nothing)
    /\ task.tracker = <<>>
    /\ task.called = <<>>
    /\ task.prompts = <<>>

\* analyze-story ended with the envelope after a failed initialisation.
C18_Witness ==
  /\ ByTool /\ Done /\ ai_client = "None"
  /\ task.name = "qa_analyze_story"
  /\ task.out.error = "AI client not available"

\* C19: in story analysis as wired by the server the diagnostic that ends the
\* prompt follows the fix versions the tracker holds: none -> "Missing fix
\* version", several -> "Multiple fix versions" with the names, one -> "Fix
\* version is valid" with the name.
C19_FixVersionDiagnostic ==
  (ModelAsked /\ ByTool /\ task.name = "qa_analyze_story") =>
    LET prompt == task.prompts[1]
        check == prompt[Len(prompt)]
        versions == task.iss.versions
    IN /\ check.kind = "fix_version_check"
       /\ versions = <<>> => check.of = "Missing fix version"
       /\ Len(versions) > 1 => check.of = "Multiple fix versions" /\ check.aux = versions
       /\ Len(versions) = 1 => check.of = "Fix version is valid" /\ check.aux = versions

\* C20: epic analysis of an epic with n linked issues fetches the details of
\* exactly the first min(n, 20) of them, in the order of the tracker, and the
\* prompt lists exactly these.
C20_EpicFetchesCapped ==
  (HandlerRan /\ ByTool /\ task.name = "qa_analyze_epic") =>
    LET n == task.iss.linked
        m == IF n < 20 THEN n ELSE 20
        fetches == SelectSeq(task.tracker, LAMBDA c : c.call = "fetch_issue_details")
    IN /\ Len(fetches) = m
       /\ \A j \in 1..m : fetches[j].key = LinkedKey(j)
       /\ task.prompts # <<>> =>
            LET lines == LinesOf(task.prompts[1], "epic_ticket") IN
            /\ Len(lines) = m
            /\ \A j \in 1..m : lines[j].of = LinkedKey(j)

\* The handler with a tracker client that has jira.jql and fetch_issue_details,
\* all of whose answers arrive: the fetches and the lines are capped as C20 says.
EpicCapWithCompatibleClient ==
  (/\ HandlerRan /\ task.name = "epic_analysis" /\ task.jc = "Compatible"
   /\ task.env.query = "ok" /\ task.env.fail_at = 0) =>
    LET n == task.env.linked
        m == IF n < 20 THEN n ELSE 20
        fetches == SelectSeq(task.tracker, LAMBDA c : c.call = "fetch_issue_details")
    IN /\ Len(fetches) = m
       /\ \A j \in 1..m : fetches[j].key = LinkedKey(j)
       /\ task.prompts # <<>> => Len(LinesOf(task.prompts[1], "epic_ticket")) = m


Summarized == Done /\ task.name = "summarize_comments"
IsNonBlank(c) == c.type = "str" /\ c.text \in {"blocker", " question "}
Trimmed(t) == IF t = " question " THEN "question" ELSE t

\* C21: summarize_comments returns the empty string without a model call when
\* the list holds no non-blank string; otherwise it makes exactly one model
\* call, whose prompt holds the non-blank strings, stripped, in their order,
\* with a blank line between each two.
C21_SummarizeComments ==
  Summarized =>
    LET nonblank == SelectSeq(task.request.comments, IsNonBlank) IN
    /\ nonblank = <<>> =>
         /\ task.prompts = <<>>
         /\ task.out.kind = "return" /\ task.out.payload.text = ""
    /\ nonblank # <<>> =>
         /\ Len(task.prompts) = 1
         /\ LET prompt == task.prompts[1]
                body == SubSeq(prompt, 2, Len(prompt) - 1)
            IN /\ Len(body) = 2 * Len(nonblank) - 1
               /\ \A k \in 1..Len(body) :
                    IF k % 2 = 1
                      THEN body[k].kind = "text"
                           /\ body[k].of = Trimmed(nonblank[(k + 1) \div 2].text)
                      ELSE body[k].kind = "blank_line"

\* A list with a blank string, a value that is no string and two texts was
\* summarized in one model call.
C21_Witness ==
  /\ Summarized
  /\ Len(task.prompts) = 1
  /\ Len(task.request.comments) = 3
  /\ \E j \in 1..3 : ~IsNonBlank(task.request.comments[j])
  /\ Len(LinesOf(task.prompts[1], "text")) = 2


(***************************************************************************)
(* The language-model call (clients/ai.py)                                 *)
(*                                                                         *)
(* ask_openai is synchronous.  Its steps are the request for the access    *)
(* token and the completion attempts; the sleep after a failed attempt     *)
(* belongs to the step of that attempt.                                    *)
(***************************************************************************)

\* max_retries = 5, retry_delay = 1, retry_delay *= 2
max_retries == 5
InitialDelay == 1
BackoffFactor == 2

\* What get_access_token meets: a token, a response without one, or a
\* requests.RequestException.
TokenOutcomes == {"token", "no_token", "error"}

\* What a completion attempt meets: a message content, or an exception.
Contents == {"answer", " answer ", ""}
AttemptOutcomes == {[ok |-> TRUE, content |-> c] : c \in Contents}
                     \cup {[ok |-> FALSE, content |-> ""]}

\* What ask_openai returns.
ReturnsNone == [none |-> TRUE, text |-> ""]
ReturnsText(content) == [none |-> FALSE, text |-> content]

\* The prompts the model is asked with.
AskPrompts == {build_analysis_prompt(BareTicket, ty, "SENIOR_QA").text : ty \in AnalysisTypes}

\* A delay that grows by one second.
NextDelay_Linear(retry_delay) == retry_delay + 1

\* retry_delay *= 2
NextDelay(retry_delay) == retry_delay * BackoffFactor

\* A loop that does not sleep after its last attempt.
SleepsAfter_ButLast(attempt) == attempt < max_retries

\* time.sleep(retry_delay) in the except clause of every attempt
SleepsAfter(attempt) == TRUE

\* token = self.get_access_token(); if not token: return None
get_access_token(outcome) == IF outcome = "token" THEN "token" ELSE "None"

InitAsk ==
  /\ InitWorkflow
  /\ config = FallbackConfig
  /\ InitAnalysis
  /\ services = [s \in Services |-> NoService]
  /\ uses = [i \in Inv |-> NoUse]
  /\ search = [pos |-> "idle"]
  /\ e2e = [pos |-> "idle"]
  /\ ask \in {[pos |-> "called", prompt |-> p, token |-> "unasked", log |-> <<>>,
               waits |-> <<>>, retry_delay |-> InitialDelay, value |-> ReturnsNone] :
                p \in AskPrompts}

\* ask_openai from its call to the first completion attempt, or to its return.
AskGetToken(outcome) ==
  /\ ask.pos = "called"
  /\ ask' = IF get_access_token(outcome) = "None"
              THEN [ask EXCEPT !.pos = "returned", !.token = outcome, !.value = ReturnsNone]
              ELSE [ask EXCEPT !.pos = "attempting", !.token = outcome]
  /\ UNCHANGED workflowVars
  /\ UNCHANGED analysisVars
  /\ UNCHANGED <<services, uses, search, e2e>>

\* One pass of the loop: the completion request and, when it fails, the sleep;
\* after the last pass the return of None.
AskAttempt(outcome) ==
  /\ ask.pos = "attempting"
  /\ Len(ask.log) < max_retries
  /\ LET attempt == Len(ask.log) + 1
         log == Append(ask.log, outcome)
     IN ask' = IF outcome.ok
                 THEN [ask EXCEPT !.pos = "returned", !.log = log,
                                  !.value = ReturnsText(outcome.content)]
                 ELSE [ask EXCEPT !.pos = IF attempt = max_retries THEN "returned" ELSE "attempting",
                                  !.log = log,
                                  !.waits = IF SleepsAfter(attempt) THEN Append(@, ask.retry_delay) ELSE @,
                                  !.retry_delay = NextDelay(@),
                                  !.value = ReturnsNone]
  /\ UNCHANGED workflowVars
  /\ UNCHANGED analysisVars
  /\ UNCHANGED <<services, uses, search, e2e>>

NextAsk ==
  \/ \E outcome \in TokenOutcomes : AskGetToken(outcome)
  \/ \E outcome \in AttemptOutcomes : AskAttempt(outcome)

SpecAsk == InitAsk /\ [][NextAsk]_vars

\* Every blocking call of ask_openai returns or raises (the token request has a
\* timeout, the sleep ends), so a pass that can be made is made.
SpecAskLive == SpecAsk /\ WF_vars(NextAsk)

(***************************************************************************)
(* Properties of the language-model call                                   *)
(***************************************************************************)

Asked == ask.pos # "idle"
AskReturned == ask.pos = "returned"
Failures == SelectSeq(ask.log, LAMBDA a : ~a.ok)
Pow2(n) == IF n = 0 THEN 1 ELSE IF n = 1 THEN 2 ELSE IF n = 2 THEN 4 ELSE IF n = 3 THEN 8 ELSE 16

\* At most 5 attempts, the wait after the k-th failed attempt is 2^(k-1)
\* seconds, and after the 5th failure None is returned.
C22_Bounds ==
  Asked =>
    /\ Len(ask.log) <= 5
    /\ Len(ask.waits) <= 5
    /\ \A k \in 1..Len(ask.waits) : ask.waits[k] = Pow2(k - 1)
    /\ Len(Failures) = 5 => AskReturned /\ ask.value.none

\* C22: ask_openai makes at most 5 completion attempts, waits 1, 2, 4, 8, 16
\* seconds after the 1st..5th failed attempt, returns None after the 5th
\* failure, and always terminates.
C22_BoundedBackoff == [](C22_Bounds) /\ <>(AskReturned)

\* Five attempts failed and the call returned None after waits of 1, 2, 4, 8, 16.
C22_Witness ==
  /\ AskReturned /\ ask.value.none
  /\ Len(Failures) = 5
  /\ ask.waits = <<1, 2, 4, 8, 16>>

Failed(req) == req.outcome \in {"status_error", "network_error"}

Succeeded(i) == pc[i] = "done" /\ result[i] = Success

\* Two invocations, of the tools t and u, have both completed successfully.
BothSucceeded(i, j, t, u) ==
  /\ i # j
  /\ tool[i] = t /\ tool[j] = u
  /\ Succeeded(i) /\ Succeeded(j)

\* C28: when two workflow invocations on one ticket have both completed
\* successfully, the ticket is in the final state of one of their two serial
\* orders: after two claims the assignee is the validator (and the test result
\* is in progress), after resolve_pass with fail_and_reopen the workflow status
\* agrees with the test result (resolved/pass or reopened/fail).
C28_Serializable ==
  \A i, j \in Inv :
    /\ BothSucceeded(i, j, "qa_claim_ticket", "qa_claim_ticket") =>
         /\ issue.assignee.val = issue.validator.val
         /\ issue.assignee.val \in {arg[i], arg[j]}
         /\ issue.test_result.val = "in_progress"
    /\ BothSucceeded(i, j, "qa_resolve_pass", "qa_fail_ticket") =>
         \/ issue.status.val = "resolved" /\ issue.test_result.val = "pass"
         \/ issue.status.val = "reopened" /\ issue.test_result.val = "fail"

(***************************************************************************)
(* The lazily created service clients (server.py getters, _get_client)     *)
(***************************************************************************)

\* The number of close() calls of an exploration.
MaxCloses == 1

\* The clients whose constructor raises ValueError when the endpoint is unset.
NeedsEndpoint == {"jira", "jenkins"}

\* The clients with an httpx handle and a close() method; the Lambda client is
\* a boto3 client used synchronously.
HttpServices == {"jira", "jenkins", "github", "webex"}

\* A getter that constructs on every call.
GetOrCreate_Always(cached, made) == made + 1

\* if _x is None: _x = X(); return _x   (and the same shape in _get_client)
GetOrCreate(cached, made) == IF cached = 0 THEN made + 1 ELSE cached

InitServices ==
  /\ InitWorkflow
  /\ config = ExampleConfig
  /\ InitAnalysis
  /\ ask = [pos |-> "idle"]
  /\ search = [pos |-> "idle"]
  /\ e2e = [pos |-> "idle"]
  /\ uses = [i \in Inv |-> NoUse]
  /\ \E unset \in SUBSET NeedsEndpoint :
       services = [s \in Services |-> [NoService EXCEPT !.configured = s \notin unset]]

\* Invocation i calls get_s() and a method of the client, up to the await of
\* its request: no await lies between the getter, _get_client and the request.
UseService(i, s) ==
  /\ uses[i].pos # "awaiting"
  /\ LET sv == services[s]
         raises == sv.obj = 0 /\ ~sv.configured
         client == GetOrCreate(sv.obj, sv.objs)
         conn == GetOrCreate(sv.handle, sv.handles)
     IN IF raises
          THEN /\ uses' = [uses EXCEPT ![i] = [pos |-> "raised", service |-> s, obj |-> 0, handle |-> 0]]
               /\ UNCHANGED services
          ELSE /\ services' = [services EXCEPT ![s].obj = client, ![s].handle = conn,
                                               ![s].objs = IF client = sv.obj THEN @ ELSE @ + 1,
                                               ![s].handles = IF conn = sv.handle THEN @ ELSE @ + 1]
               /\ uses' = [uses EXCEPT ![i] = [pos |-> IF s \in HttpServices THEN "awaiting" ELSE "used",
                                               service |-> s, obj |-> client, handle |-> conn]]
  /\ UNCHANGED workflowVars
  /\ UNCHANGED analysisVars
  /\ UNCHANGED <<ask, search, e2e>>

\* The request of invocation i is answered and the invocation ends.
ServiceResponds(i) ==
  /\ uses[i].pos = "awaiting"
  /\ uses' = [uses EXCEPT ![i] = NoUse]
  /\ UNCHANGED workflowVars
  /\ UNCHANGED analysisVars
  /\ UNCHANGED <<ask, services, search, e2e>>

\* close(): if self._client: await self._client.aclose()
CloseBegin(s) ==
  /\ s \in HttpServices
  /\ services[s].handle # 0
  /\ ~services[s].closing
  /\ services[s].closes < MaxCloses
  /\ services' = [services EXCEPT ![s].closing = TRUE]
  /\ UNCHANGED workflowVars
  /\ UNCHANGED analysisVars
  /\ UNCHANGED <<ask, uses, search, e2e>>

\* close(), after the await: self._client = None
CloseEnd(s) ==
  /\ services[s].closing
  /\ services' = [services EXCEPT ![s].closing = FALSE, ![s].handle = 0, ![s].closes = @ + 1]
  /\ UNCHANGED workflowVars
  /\ UNCHANGED analysisVars
  /\ UNCHANGED <<ask, uses, search, e2e>>

NextServices ==
  \/ \E i \in Inv, s \in Services : UseService(i, s)
  \/ \E i \in Inv : ServiceResponds(i)
  \/ \E s \in Services : CloseBegin(s)
  \/ \E s \in Services : CloseEnd(s)

SpecServices == InitServices /\ [][NextServices]_vars

\* close() has not been called on the client of service s.
NotClosed(s) == services[s].closes = 0 /\ ~services[s].closing

NotAvailable == Envelope("error", "AI client not available", Nothing)

\* C25: with the issue-tracker endpoint unset, constructing the tracker client
\* raises, and an AI-analysis tool that is given both title and description,
\* with an AI client that can be initialized, reports neither an
\* issue-tracker error nor "AI client not available".
C25_OtherCollaboratorsUnaffected ==
  [][\A t \in AITools, mo \in ModelOutcomes :
       (FetchesIfMissing(t) /\ InvokeTool(t, TRUE, TRUE, FALSE, mo)) =>
         /\ jira = "None" => get_jira(Globals, FALSE).raised
         /\ task'.out # NotAvailable
         /\ task'.out # ToolRaises("ValueError")]_vars

\* C29: a failed initialization leaves the failed value unset, so that a
\* later invocation for which the AI client and the tracker client can be
\* constructed builds the handler set; a handler set that has been built is
\* what every later get_handlers call returns, it stays built, and no AI tool
\* reports "AI client not available" after it.
C29_AvailabilityMonotone ==
  [][/\ handlers = "built" =>
          /\ handlers' = "built"
          /\ \A ai_ok, url_set \in BOOLEAN :
               get_handlers(Globals, ai_ok, url_set) = [value |-> "built", g |-> Globals]
          /\ task'.pos # "idle" => task'.out # NotAvailable
     /\ (task'.pos # "idle" /\ task'.out = NotAvailable) =>
          /\ handlers' = "None"
          /\ ai_client' = "None" \/ jira' = "None"
          /\ get_handlers([ai_client |-> ai_client', handlers |-> handlers', jira |-> jira'],
                          TRUE, TRUE).value = "built"]_vars

\* The handler set is built and an AI tool has returned what its handler
\* returned.
C29_Witness ==
  /\ handlers = "built"
  /\ ByTool /\ Done
  /\ task.called # <<>>
  /\ task.out.kind = "return" /\ task.out.status = "success"

(***************************************************************************)
(* GitHubClient.search_prs (clients/github.py)                             *)
(*                                                                         *)
(* Texts are sequences of character codes, so that lower() and "in" are    *)
(* computed on characters.                                                 *)
(***************************************************************************)

\* The number of pull requests in a listing.
MaxPRs == 2

IsUpper(c) == c >= 65 /\ c <= 90
IsLetter(c) == IsUpper(c) \/ (c >= 97 /\ c <= 122)

\* A comparison that leaves the case as it is.
LowerChar_AsIs(c) == c

\* str.lower(), on one ASCII character
LowerChar(c) == IF IsUpper(c) THEN c + 32 ELSE c

LowerText(t) == [k \in 1..Len(t) |-> LowerChar(t[k])]

\* needle in hay, of Python strings ('' is in every string)
In(needle, hay) ==
  \E off \in 0..Len(hay) :
    /\ off + Len(needle) <= Len(hay)
    /\ \A k \in 1..Len(needle) : hay[off + k] = needle[k]

\* A field of a pull request of the listing: a string, null, or no such key.
Text(t) == [kind |-> "text", text |-> t]
Null == [kind |-> "null", text |-> <<>>]
Absent == [kind |-> "absent", text |-> <<>>]

\* (pr.get(field) or "")
GetOrEmpty(field) == IF field.kind = "text" THEN field.text ELSE <<>>

\* "ab", "AB", "B1", ""
SearchTerms == {<<97, 98>>, <<65, 66>>, <<66, 49>>, <<>>}

\* Titles "AB1", "ab", "x" and null; bodies "xAb", "", null and no body key.
\* The listing of the host always has a title key.
Titles == {Text(<<65, 66, 49>>), Text(<<97, 98>>), Text(<<120>>), Null}
Bodies == {Text(<<120, 65, 98>>), Text(<<>>), Null, Absent}
PullRequests(k) == {[number |-> k, title |-> t, body |-> b] : t \in Titles, b \in Bodies}
Listings ==
  UNION {{l \in [1..n -> UNION {PullRequests(k) : k \in 1..n}] : \A k \in 1..n : l[k].number = k} :
           n \in 0..MaxPRs}

\* The entry search_prs appends for a pull request.
Found(pr) == [number |-> pr.number, title |-> pr.title]

\* The loop over the listing.
Matches(pr, search_term) ==
  LET search_lower == LowerText(search_term)
      title == LowerText(GetOrEmpty(pr.title))
      body == LowerText(GetOrEmpty(pr.body))
  IN In(search_lower, title) \/ In(search_lower, body)

RECURSIVE Collect(_, _, _)
Collect(data, k, search_term) ==
  IF k > Len(data) THEN <<>>
  ELSE IF Matches(data[k], search_term)
    THEN <<Found(data[k])>> \o Collect(data, k + 1, search_term)
    ELSE Collect(data, k + 1, search_term)

\* search_prs from the answer to its request: httpx.HTTPError gives [].
search_prs(search_term, outcome, data) ==
  IF outcome = "ok" THEN Collect(data, 1, search_term) ELSE <<>>

InitSearch ==
  /\ InitWorkflow
  /\ config = FallbackConfig
  /\ InitAnalysis
  /\ ask = [pos |-> "idle"]
  /\ services = [s \in Services |-> NoService]
  /\ uses = [i \in Inv |-> NoUse]
  /\ e2e = [pos |-> "idle"]
  /\ search = [pos |-> "idle"]

\* search_prs is called and sends its one request.
CallSearch(search_term) ==
  /\ search.pos = "idle"
  /\ search' = [pos |-> "awaiting", term |-> search_term, outcome |-> "pending",
                data |-> <<>>, value |-> <<>>]
  /\ UNCHANGED workflowVars
  /\ UNCHANGED analysisVars
  /\ UNCHANGED <<ask, services, uses, e2e>>

\* The host answers with a listing, or the request fails.
ListingResponse(outcome, data) ==
  /\ search.pos = "awaiting"
  /\ search' = [search EXCEPT !.pos = "returned", !.outcome = outcome,
                              !.data = IF outcome = "ok" THEN data ELSE <<>>,
                              !.value = search_prs(search.term, outcome, data)]
  /\ UNCHANGED workflowVars
  /\ UNCHANGED analysisVars
  /\ UNCHANGED <<ask, services, uses, e2e>>

NextSearch ==
  \/ /\ search.pos = "idle"
     /\ \E search_term \in SearchTerms : CallSearch(search_term)
  \/ /\ search.pos = "awaiting"
     /\ \E outcome \in Outcomes, data \in Listings : ListingResponse(outcome, data)

SpecSearch == InitSearch /\ [][NextSearch]_vars

\* Two characters that are equal, or the same letter in different case.
SameLetter(a, b) == a = b \/ (IsLetter(a) /\ IsLetter(b) /\ (a = b + 32 \/ b = a + 32))

\* The text holds the term somewhere, not regarding case.
Mentions(field, term) ==
  LET text == IF field.kind = "text" THEN field.text ELSE <<>> IN
  \E off \in 0..Len(text) :
    /\ off + Len(term) <= Len(text)
    /\ \A k \in 1..Len(term) : SameLetter(text[off + k], term[k])

\* The pull requests of the listing that mention the term, by position.
Mentioning == {k \in 1..Len(search.data) :
                 Mentions(search.data[k].title, search.term) \/ Mentions(search.data[k].body, search.term)}

ExampleJobs == [r \in {"your-backend-repo"} |->
                  [j \in {"e2e", "pr_gate"} |-> IF j = "e2e" THEN "job/e2e-tests" ELSE "job/pr-gate"]]
GateOnlyJobs == [r \in {"your-backend-repo"} |-> [j \in {"pr_gate"} |-> "job/pr-gate"]]
FallbackJobs == [r \in {} |-> [j \in {} |-> ""]]
JobTables == {ExampleJobs, GateOnlyJobs, FallbackJobs}

Repos == {"your-backend-repo", "other-repo"}
Branches == {"", "feature"}
PrNumbers == {-1, 0, 7}

\* data["head"]["ref"] of the pull request.
HeadBranches == {"fix-login", ""}

NoOut == [kind |-> "none", status |-> "", error |-> ""]
E2EError(msg) == [kind |-> "return", status |-> "error", error |-> msg]
E2ESuccess == [kind |-> "return", status |-> "success", error |-> ""]
E2ERaises(exc) == [kind |-> "raise", status |-> "", error |-> exc]

\* A tool that keeps the caller's branch when one is given.
BranchOfPR_CallerFirst(head_branch, branch) == IF branch # "" THEN branch ELSE head_branch

\* branch = pr_info.get("head_branch", "")
BranchOfPR(head_branch, branch) == head_branch

\* if not branch: branch = "main"
DefaultBranch(branch) == IF branch = "" THEN "main" ELSE branch

\* From 'if not branch' to the await of the build trigger, or to the return.
TriggerPart(st, branch) ==
  LET b == DefaultBranch(branch) IN
  IF ~st.url_set
    THEN [st EXCEPT !.pos = "returned", !.out = E2ERaises("ValueError")]
    ELSE IF st.repo \notin DOMAIN st.jobs
      THEN [st EXCEPT !.pos = "returned", !.out = E2EError("Unknown repo")]
      ELSE IF DictGet(st.jobs[st.repo], "e2e") = ""
        THEN [st EXCEPT !.pos = "returned", !.out = E2EError("No E2E job configured")]
        ELSE [st EXCEPT !.pos = "awaiting_build", !.triggers = Append(@, b)]

InitE2E ==
  /\ InitWorkflow
  /\ config = FallbackConfig
  /\ InitAnalysis
  /\ ask = [pos |-> "idle"]
  /\ services = [s \in Services |-> NoService]
  /\ uses = [i \in Inv |-> NoUse]
  /\ search = [pos |-> "idle"]
  /\ \E jobs \in JobTables, url_set \in BOOLEAN :
       e2e = [pos |-> "idle", jobs |-> jobs, url_set |-> url_set, repo |-> "", branch |-> "",
              pr_number |-> 0, lookups |-> 0, head |-> "", resolved |-> FALSE,
              triggers |-> <<>>, out |-> NoOut]

\* The tool from its call to its first await, or to its return.
CallE2E(repo, branch, pr_number) ==
  /\ e2e.pos = "idle"
  /\ LET st == [e2e EXCEPT !.repo = repo, !.branch = branch, !.pr_number = pr_number] IN
       e2e' = IF pr_number > 0
                THEN [st EXCEPT !.pos = "awaiting_pr", !.lookups = @ + 1]
                ELSE TriggerPart([st EXCEPT !.resolved = TRUE], branch)
  /\ UNCHANGED workflowVars
  /\ UNCHANGED analysisVars
  /\ UNCHANGED <<ask, services, uses, search>>

\* get_pr is answered: the tool returns an error, or goes on to the trigger.
PRResponse(outcome, head_branch) ==
  /\ e2e.pos = "awaiting_pr"
  /\ e2e' = IF outcome # "ok"
              THEN [e2e EXCEPT !.pos = "returned", !.out = E2EError("Failed to get PR info")]
              ELSE LET branch == BranchOfPR(head_branch, e2e.branch) IN
                   IF branch = ""
                     THEN [e2e EXCEPT !.pos = "returned", !.head = head_branch,
                                      !.out = E2EError("Could not get branch name from PR")]
                     ELSE TriggerPart([e2e EXCEPT !.head = head_branch, !.resolved = TRUE], branch)
  /\ UNCHANGED workflowVars
  /\ UNCHANGED analysisVars
  /\ UNCHANGED <<ask, services, uses, search>>

\* The CI server answers the trigger: trigger_build catches HTTPStatusError only.
BuildResponse(outcome) ==
  /\ e2e.pos = "awaiting_build"
  /\ e2e' = [e2e EXCEPT !.pos = "returned",
                        !.out = CASE outcome = "ok" -> E2ESuccess
                                  [] outcome = "status_error" -> E2EError("Failed to trigger build")
                                  [] OTHER -> E2ERaises(ExceptionOf(outcome))]
  /\ UNCHANGED workflowVars
  /\ UNCHANGED analysisVars
  /\ UNCHANGED <<ask, services, uses, search>>

NextE2E ==
  \/ /\ e2e.pos = "idle"
     /\ \E repo \in Repos, branch \in Branches, pr_number \in PrNumbers :
          CallE2E(repo, branch, pr_number)
  \/ /\ e2e.pos = "awaiting_pr"
     /\ \E outcome \in Outcomes, head_branch \in HeadBranches : PRResponse(outcome, head_branch)
  \/ /\ e2e.pos = "awaiting_build"
     /\ \E outcome \in Outcomes : BuildResponse(outcome)

SpecE2E == InitE2E /\ [][NextE2E]_vars

\* The client can be constructed and the repository has an e2e job.
CanTrigger ==
  /\ e2e.url_set
  /\ e2e.repo \in DOMAIN e2e.jobs
  /\ "e2e" \in DOMAIN e2e.jobs[e2e.repo]

\* C27: the build trigger is issued at most once and only with a resolved
\* branch: for pr_number > 0 the head branch of the pull request, after one
\* successful lookup, and never after a failed lookup or an empty head branch,
\* which end in an error envelope; for pr_number <= 0 the caller's branch, or
\* "main" when none is given.
C27_TriggerAfterBranch ==
  e2e.pos # "idle" =>
    /\ Len(e2e.triggers) <= 1
    /\ e2e.lookups = (IF e2e.pr_number > 0 THEN 1 ELSE 0)
    /\ e2e.triggers # <<>> =>
         /\ e2e.resolved /\ e2e.triggers[1] # ""
         /\ e2e.pr_number > 0 => e2e.triggers[1] = e2e.head
         /\ (e2e.pr_number <= 0 /\ e2e.branch = "") => e2e.triggers[1] = "main"
         /\ (e2e.pr_number <= 0 /\ e2e.branch # "") => e2e.triggers[1] = e2e.branch
    /\ (e2e.pos = "returned" /\ e2e.pr_number > 0 /\ ~e2e.resolved) =>
         /\ e2e.triggers = <<>>
         /\ e2e.out.kind = "return" /\ e2e.out.status = "error"
    /\ (e2e.pos \in {"awaiting_build", "returned"} /\ e2e.resolved /\ CanTrigger) =>
         Len(e2e.triggers) = 1

\* A call with a pull request and a caller's branch has triggered the build on
\* the head branch of the pull request.
C27_Witness ==
  /\ e2e.pos = "returned" /\ e2e.out = E2ESuccess
  /\ e2e.pr_number > 0 /\ e2e.branch = "feature"
  /\ e2e.triggers = <<"fix-login">>

====
